---- MODULE Spec2Model ----
(***************************************************************************)
(* A model of LspServer (server/src/lsp-server.ts) and LspDocument         *)
(* (document.ts): the open-document map, the diagnostics token slot, the   *)
(* messages the server exchanges with the editor and with tsserver.        *)
(*                                                                         *)
(* Every handler is one action: JavaScript runs a handler without          *)
(* interruption up to its first await, and each continuation after an      *)
(* await is an action of its own, enabled once the awaited request is      *)
(* settled.                                                                *)
(***************************************************************************)
EXTENDS Integers, Sequences, FiniteSets, TLC

VARIABLES
    openedDocumentUris,      \* Map<string, LspDocument>, in insertion order
    diagnosticsTokenSource,  \* the token of the geterr round in flight, or Undefined
    tokenSources,            \* how many CancellationTokenSources were created
    cancelled,               \* the token sources on which cancel() was called
    pending,                 \* tspClient requests somebody still awaits (trace indices)
    diagnosticQueue,         \* DiagnosticEventQueue: uri -> kind -> has diagnostics
    now,                     \* what new Date().getTime() returns
    trace                    \* every message on the four channels, in order

vars == <<openedDocumentUris, diagnosticsTokenSource, tokenSources, cancelled,
          pending, diagnosticQueue, now, trace>>

-----------------------------------------------------------------------------
(* Bounds of the model.                                                    *)

\* editor messages handled in one run of the protocol specification
MaxOps == 3
\* editor notifications handled in one run of the text specification
MaxEdits == 3
\* editor messages handled in one run of the last-access specification
MaxLruOps == 4
\* the clock readings are 0..MaxClock
MaxClock == 2
\* editor messages handled in one run of the events specification
MaxEventOps == 2
\* events the analyzer emits in one run
MaxEvents == 1
\* editor messages handled in one run of the handlers specification
MaxUriOps == 2
\* editor messages handled in one run of the failures specification
MaxFailOps == 2
\* editor messages handled in one run of the commands specification
MaxCommands == 2
\* editor messages handled in one run of the queries' last-access specification
MaxAccessOps == 3
\* editor messages handled in one run of the re-arming specification
MaxRearmOps == 3
\* the texts of the conversions specification have up to MaxLen code units
MaxLen == 3
\* conversions called in one run of the conversions specification
MaxCalls == 1
\* editor messages handled in one run of the closing specification
MaxCloseOps == 3
\* rename requests handled in one run of the rename specification
MaxRenames == 2
\* editor messages handled in one run of the folding specification
MaxFoldOps == 3
\* foldingRanges requests handled in one run of the folding specification
MaxFolds == 1

-----------------------------------------------------------------------------
(* Values.                                                                 *)

\* `undefined` in the token slot; token sources are numbered from 1
Undefined == 0

FileUris == {"file:///a.ts", "file:///b.ts", "file:///c.ts"}
NoPath == "undefined"

\* uriToPath: the path of a file:// URI, undefined for any other scheme
UriToPath(uri) ==
    CASE uri = "file:///a.ts" -> "/a.ts"
      [] uri = "file:///b.ts" -> "/b.ts"
      [] uri = "file:///c.ts" -> "/c.ts"
      [] OTHER -> NoPath

\* pathToUri: the file:// URI of a path
PathToUri(file) ==
    CASE file = "/a.ts" -> "file:///a.ts"
      [] file = "/b.ts" -> "file:///b.ts"
      [] file = "/c.ts" -> "file:///c.ts"
      [] OTHER -> "file://" \o file

Range(s) == {s[i] : i \in DOMAIN s}

RECURSIVE SetToSortedSeq(_)
SetToSortedSeq(S) ==
    IF S = {} THEN <<>>
    ELSE LET m == CHOOSE x \in S : \A y \in S : x <= y
         IN <<m>> \o SetToSortedSeq(S \ {m})

Min(a, b) == IF a < b THEN a ELSE b
Max(a, b) == IF a > b THEN a ELSE b

-----------------------------------------------------------------------------
(* lsp.TextDocument, to which LspDocument delegates: a text is a sequence  *)
(* of code units; offsets are 0-based.                                     *)

Position(line, character) == [line |-> line, character |-> character]

\* getLineOffsets: the offset at which each line starts
LineOffsets(text) ==
    SetToSortedSeq(
        (IF Len(text) > 0 THEN {0} ELSE {})
        \cup {k \in 1..Len(text) :
                \/ text[k] = "\n"
                \/ text[k] = "\r" /\ (k = Len(text) \/ text[k + 1] # "\n")})

PositionAt(text, offset) ==
    LET o == Max(Min(offset, Len(text)), 0)
        lineOffsets == LineOffsets(text)
    IN IF Len(lineOffsets) = 0 THEN Position(0, o)
       ELSE LET line == Cardinality({i \in DOMAIN lineOffsets : lineOffsets[i] <= o}) - 1
            IN Position(line, o - lineOffsets[line + 1])

OffsetAt(text, position) ==
    LET lineOffsets == LineOffsets(text)
    IN IF position.line >= Len(lineOffsets) THEN Len(text)
       ELSE IF position.line < 0 THEN 0
       ELSE LET lineOffset == lineOffsets[position.line + 1]
                nextLineOffset == IF position.line + 1 < Len(lineOffsets)
                                  THEN lineOffsets[position.line + 2]
                                  ELSE Len(text)
            IN Max(Min(lineOffset + position.character, nextLineOffset), lineOffset)

-----------------------------------------------------------------------------
(* LspDocument.                                                            *)

\* new LspDocument(doc): lastAccessed is initialised from the clock
NewLspDocument(uri, version, text, time) ==
    [uri |-> uri, version |-> version, text |-> text, lastAccessed |-> time]

\* markAccessed()
MarkAccessed(doc, time) == [doc EXCEPT !.lastAccessed = time]

\* getText() without a range
GetText(doc) == doc.text

\* positionAt(offset), lines 65-67
LspDocumentPositionAt(doc, offset) == PositionAt(doc.text, offset)

\* offsetAt giving the offset at which the line of the position starts
OffsetAtLineStart(doc, position) == OffsetAt(doc.text, Position(position.line, 0))

\* offsetAt(position), lines 69-71
LspDocumentOffsetAt(doc, position) == OffsetAt(doc.text, position)

\* lsp.Range.create
RangeCreate(start, end) == [start |-> start, end |-> end]

\* getText(range), lines 61-63: the text from the offset of the start of
\* the range to the offset of its end
GetTextRange(doc, range) ==
    SubSeq(doc.text, OffsetAt(doc.text, range.start) + 1, OffsetAt(doc.text, range.end))

\* getLineStart(line), lines 98-100
GetLineStart(line) == Position(line, 0)

\* getLineOffset(line), lines 93-96
GetLineOffset(doc, line) == LspDocumentOffsetAt(doc, GetLineStart(line))

\* getLineEnd(line), lines 88-91
GetLineEnd(doc, line) ==
    LET nextLineOffset == GetLineOffset(doc, line + 1)
    IN LspDocumentPositionAt(doc, nextLineOffset - 1)

\* getLineRange(line), lines 82-86
GetLineRange(doc, line) == RangeCreate(GetLineStart(line), GetLineEnd(doc, line))

\* getLine(line), lines 77-80
GetLine(doc, line) == GetTextRange(doc, GetLineRange(doc, line))

-----------------------------------------------------------------------------
(* Messages. Each is a record that names its channel, ch, and its command *)
(* or method, cmd, and holds the fields the command has:                   *)
(*   lspIn   editor -> server     tsOut  server -> analyzer                *)
(*   tsIn    analyzer -> server   lspOut server -> editor                  *)
(* and, for what executeCommand does besides,                              *)
(*   lspRe   the editor's answer to a request of the server                *)
(*   fs      a call of the file system                                     *)

\* a content change: {text}, or {range, text}
FullChange(text) == [text |-> text]
RangedChange(start, end, text) == [range |-> [start |-> start, end |-> end], text |-> text]
HasRange(change) == "range" \in DOMAIN change

\* a message of the editor; tok notes the token slot as the handler finds it
LspIn(cmd, uri) ==
    [ch |-> "lspIn", cmd |-> cmd, uri |-> uri, tok |-> diagnosticsTokenSource]
TsOut(cmd, file) == [ch |-> "tsOut", cmd |-> cmd, file |-> file]
\* the answer to the request that is message seq of the trace
TsResponse(seq) == [ch |-> "tsIn", cmd |-> "response", seq |-> seq]
\* the failure response to the request that is message seq of the trace
TsFailure(seq) == [ch |-> "tsIn", cmd |-> "response", seq |-> seq, success |-> FALSE]
Succeeded(msg) == "success" \notin DOMAIN msg
TsEvent(event, file) == [ch |-> "tsIn", cmd |-> event, file |-> file]
LspOut(cmd, uri) == [ch |-> "lspOut", cmd |-> cmd, uri |-> uri]
\* what a handler returns to the editor: result is what the result holds, {}
\* for the empty one ([], undefined, {contents: []})
Returns(cmd, uri, result) == LspOut(cmd, uri) @@ [result |-> result]
PublishDiagnostics(uri, diags) ==
    [ch |-> "lspOut", cmd |-> "publishDiagnostics", uri |-> uri, diags |-> diags]

\* the indices of the trace that hold a message of channel ch
Indices(tr, ch) == {i \in DOMAIN tr : tr[i].ch = ch}
Count(tr, ch) == Cardinality(Indices(tr, ch))

-----------------------------------------------------------------------------
(* The open-document map.                                                  *)

IsOpen(docs, uri) == \E i \in DOMAIN docs : docs[i].uri = uri
IndexOf(docs, uri) == CHOOSE i \in DOMAIN docs : docs[i].uri = uri
\* Map.get
Get(docs, uri) == docs[IndexOf(docs, uri)]
\* Map.delete
Delete(docs, uri) == SelectSeq(docs, LAMBDA d : d.uri # uri)

\* sort((a, b) => a[1].lastAccessed - b[1].lastAccessed): a stable sort of
\* the entries, which are in insertion order
RECURSIVE SortByLastAccessed(_)
SortByLastAccessed(docs) ==
    IF docs = <<>> THEN <<>>
    ELSE LET least == CHOOSE i \in DOMAIN docs :
                        /\ \A j \in DOMAIN docs : docs[i].lastAccessed <= docs[j].lastAccessed
                        /\ \A j \in 1..(i - 1) : docs[j].lastAccessed # docs[i].lastAccessed
         IN <<docs[least]>>
            \o SortByLastAccessed(SubSeq(docs, 1, least - 1)
                                  \o SubSeq(docs, least + 1, Len(docs)))

\* requestDiagnostics, lines 166-171: the paths of the open documents, least
\* recently accessed first
GeterrFiles(docs) ==
    LET ordered == SortByLastAccessed(docs)
    IN [i \in DOMAIN ordered |-> UriToPath(ordered[i].uri)]

-----------------------------------------------------------------------------
(* TspClient and the diagnostics token. The operators below work on a      *)
(* record s of the fields a handler changes on its way:                    *)
(*   slot, tokenSources, cancelled, pending, trace.                        *)

Self == [slot |-> diagnosticsTokenSource, tokenSources |-> tokenSources,
         cancelled |-> cancelled, pending |-> pending, trace |-> trace]

Commit(s) ==
    /\ diagnosticsTokenSource' = s.slot
    /\ tokenSources' = s.tokenSources
    /\ cancelled' = s.cancelled
    /\ pending' = s.pending
    /\ trace' = s.trace

\* a message of another channel, recorded in order
Record(s, msg) == [s EXCEPT !.trace = Append(@, msg)]

\* tspClient.notify: fire and forget; the trace holds the calls in the order
\* in which the server makes them, which is the order of delivery
TspNotify(s, msg) == [s EXCEPT !.trace = Append(@, msg)]

\* tspClient.request: the call is recorded like a notification, and the
\* caller awaits the settling of the request
TspRequest(s, msg) ==
    [s EXCEPT !.trace = Append(@, msg), !.pending = @ \cup {Len(s.trace) + 1}]

\* cancelDiagnostics, lines 184-189
CancelDiagnostics(s) ==
    IF s.slot # Undefined
    THEN [s EXCEPT !.cancelled = @ \cup {s.slot}, !.slot = Undefined]
    ELSE s

\* requestDiagnostics up to its await, lines 161-177
RequestDiagnostics(s, docs) ==
    LET c == CancelDiagnostics(s)
        geterrTokenSource == c.tokenSources + 1
    IN TspRequest([c EXCEPT !.tokenSources = geterrTokenSource,
                            !.slot = geterrTokenSource],
                  [ch |-> "tsOut", cmd |-> "geterr", files |-> GeterrFiles(docs),
                   tok |-> geterrTokenSource])

\* the finally block never clearing the slot
FinallyClearNever(slot, geterrTokenSource) == slot

\* the finally block clearing the slot whatever token it holds
FinallyClearAlways(slot, geterrTokenSource) == Undefined

\* requestDiagnostics after its await, lines 178-182: the slot afterwards
RequestDiagnosticsFinally(slot, geterrTokenSource) ==
    IF slot = geterrTokenSource THEN Undefined ELSE slot

\* interuptDiagnostics re-arming the diagnostics before it calls f
InteruptDiagnosticsGeterrFirst(s, req, docs) ==
    IF s.slot = Undefined THEN TspRequest(s, req)
    ELSE TspRequest(RequestDiagnostics(CancelDiagnostics(s), docs), req)

\* interuptDiagnostics not re-arming the diagnostics
InteruptDiagnosticsNoRearm(s, req, docs) ==
    IF s.slot = Undefined THEN TspRequest(s, req)
    ELSE TspRequest(CancelDiagnostics(s), req)

\* interuptDiagnostics(f), lines 152-160, for an f that issues the request req
InteruptDiagnostics(s, req, docs) ==
    IF s.slot = Undefined THEN TspRequest(s, req)
    ELSE RequestDiagnostics(TspRequest(CancelDiagnostics(s), req), docs)

\* interuptDiagnostics(f), lines 152-160, for an f that throws instead of
\* issuing its request: the call of requestDiagnostics in line 158 is not
\* reached
InteruptDiagnosticsThrows(s) ==
    IF s.slot = Undefined THEN s ELSE CancelDiagnostics(s)

-----------------------------------------------------------------------------
(* The notifications of the editor.                                        *)

\* the span of a content change sent in the editor's 0-based coordinates
ChangeMsgZeroBased(document, file, change) ==
    LET endPos == PositionAt(GetText(document), Len(GetText(document)))
    IN IF ~HasRange(change)
       THEN TsOut("change", file) @@
            [line |-> 1, offset |-> 1,
             endLine |-> endPos.line + 1, endOffset |-> endPos.character + 1,
             insertString |-> change.text]
       ELSE TsOut("change", file) @@
            [line |-> change.range.start.line, offset |-> change.range.start.character,
             endLine |-> change.range.end.line, endOffset |-> change.range.end.character,
             insertString |-> change.text]

\* didChangeTextDocument, lines 260-273: the span of one content change in
\* the analyzer's 1-based coordinates
ChangeMsg(document, file, change) ==
    LET endPos == PositionAt(GetText(document), Len(GetText(document)))
    IN IF ~HasRange(change)
       THEN TsOut("change", file) @@
            [line |-> 1, offset |-> 1,
             endLine |-> endPos.line + 1, endOffset |-> endPos.character + 1,
             insertString |-> change.text]
       ELSE TsOut("change", file) @@
            [line |-> change.range.start.line + 1,
             offset |-> change.range.start.character + 1,
             endLine |-> change.range.end.line + 1,
             endOffset |-> change.range.end.character + 1,
             insertString |-> change.text]

\* didChangeTextDocument, lines 246-284, entered with the server fields s
DidChangeFrom(s, uri, changes) ==
    LET file == UriToPath(uri) IN
    IF file = NoPath
    THEN Commit(s) /\ UNCHANGED <<openedDocumentUris, diagnosticQueue, now>>
    ELSE IF ~IsOpen(openedDocumentUris, uri)
    THEN \* throw new Error("Received change on non-opened document ...")
         /\ Commit(Record(s, LspOut("error", uri)))
         /\ UNCHANGED <<openedDocumentUris, diagnosticQueue, now>>
    ELSE LET i == IndexOf(openedDocumentUris, uri)
             document == MarkAccessed(openedDocumentUris[i], now)
             docs == [openedDocumentUris EXCEPT ![i] = document]
             sent == [k \in DOMAIN changes |-> ChangeMsg(document, file, changes[k])]
         IN /\ openedDocumentUris' = docs
            /\ Commit(RequestDiagnostics([s EXCEPT !.trace = @ \o sent], docs))
            /\ UNCHANGED <<diagnosticQueue, now>>

DidChangeTextDocument(uri, version, changes) ==
    DidChangeFrom(Record(Self, LspIn("didChange", uri) @@
                                   [version |-> version, contentChanges |-> changes]),
                  uri, changes)

\* didOpenTextDocument without its test for a document that is open already
DidOpenAlways(uri, version, text) ==
    LET file == UriToPath(uri)
        s == Record(Self, LspIn("didOpen", uri) @@ [version |-> version, text |-> text])
        docs == Append(openedDocumentUris, NewLspDocument(uri, version, text, now))
    IN /\ file # NoPath
       /\ openedDocumentUris' = docs
       /\ Commit(RequestDiagnostics(
              TspNotify(s, TsOut("open", file) @@ [fileContent |-> text]), docs))
       /\ UNCHANGED <<diagnosticQueue, now>>

\* didOpenTextDocument, lines 191-217
DidOpenTextDocument(uri, version, text) ==
    LET file == UriToPath(uri)
        s == Record(Self, LspIn("didOpen", uri) @@ [version |-> version, text |-> text])
    IN IF file = NoPath
       THEN Commit(s) /\ UNCHANGED <<openedDocumentUris, diagnosticQueue, now>>
       ELSE IF IsOpen(openedDocumentUris, uri)
       THEN DidChangeFrom(s, uri, <<FullChange(text)>>)
       ELSE LET docs == Append(openedDocumentUris,
                               NewLspDocument(uri, version, text, now))
            IN /\ openedDocumentUris' = docs
               /\ Commit(RequestDiagnostics(
                      TspNotify(s, TsOut("open", file) @@ [fileContent |-> text]), docs))
               /\ UNCHANGED <<diagnosticQueue, now>>

\* didCloseTextDocument without its test for a URI that is no file
DidCloseUnguarded(uri) ==
    /\ openedDocumentUris' = Delete(openedDocumentUris, uri)
    /\ Commit(Record(TspNotify(Record(Self, LspIn("didClose", uri)),
                               TsOut("close", UriToPath(uri))),
                     PublishDiagnostics(uri, {})))
    /\ UNCHANGED <<diagnosticQueue, now>>

\* didCloseTextDocument, lines 229-244
DidCloseTextDocument(uri) ==
    LET file == UriToPath(uri)
        s == Record(Self, LspIn("didClose", uri))
    IN IF file = NoPath
       THEN Commit(s) /\ UNCHANGED <<openedDocumentUris, diagnosticQueue, now>>
       ELSE /\ openedDocumentUris' = Delete(openedDocumentUris, uri)
            /\ Commit(Record(TspNotify(s, TsOut("close", file)),
                             PublishDiagnostics(uri, {})))
            /\ UNCHANGED <<diagnosticQueue, now>>

-----------------------------------------------------------------------------
(* The queries of the editor, up to their first await. A query is asked at *)
(* position (0, 0), which the analyzer is given as line 1, offset 1.       *)

QueryReq(cmd, file) == TsOut(cmd, file) @@ [line |-> 1, offset |-> 1]

\* a handler that wraps its request in interuptDiagnostics
Interrupting(s, cmd, file) ==
    /\ Commit(InteruptDiagnostics(s, QueryReq(cmd, file), openedDocumentUris))
    /\ UNCHANGED <<openedDocumentUris, diagnosticQueue, now>>

\* a handler that returns its empty result without a request
ReturnEmpty(s, cmd, uri) ==
    /\ Commit(Record(s, Returns(cmd, uri, {})))
    /\ UNCHANGED <<openedDocumentUris, diagnosticQueue, now>>

\* a handler that throws: the editor is answered with an error
Throw(s, uri) ==
    /\ Commit(Record(s, LspOut("error", uri)))
    /\ UNCHANGED <<openedDocumentUris, diagnosticQueue, now>>

\* a handler that issues its request without interuptDiagnostics
Requesting(s, req) ==
    /\ Commit(TspRequest(s, req))
    /\ UNCHANGED <<openedDocumentUris, diagnosticQueue, now>>

\* completion without its test for a document that is not open
CompletionUnchecked(uri) ==
    LET file == UriToPath(uri)
        s == Record(Self, LspIn("completion", uri))
    IN IF file = NoPath THEN ReturnEmpty(s, "completion", uri)
       ELSE Interrupting(s, "completions", file)

\* completion, lines 372-390
Completion(uri) ==
    LET file == UriToPath(uri)
        s == Record(Self, LspIn("completion", uri))
    IN IF file = NoPath THEN ReturnEmpty(s, "completion", uri)
       ELSE IF ~IsOpen(openedDocumentUris, uri)
       THEN \* throw new Error("The document should be opened for completion ...")
            Throw(s, uri)
       ELSE Interrupting(s, "completions", file)

\* completion, lines 372-390, when tspClient.request throws in the call: the
\* error leaves interuptDiagnostics and the handler
CompletionCannotIssue(uri) ==
    LET s == Record(Self, LspIn("completion", uri))
    IN /\ UriToPath(uri) # NoPath
       /\ IsOpen(openedDocumentUris, uri)
       /\ Throw(InteruptDiagnosticsThrows(s), uri)

\* completionResolve, lines 395-397; item.data names the file of the item
CompletionResolve(uri) ==
    Interrupting(Record(Self, LspIn("completionResolve", uri)),
                 "completionEntryDetails", UriToPath(uri))

\* hover, lines 405-412, and getQuickInfo, lines 427-433
Hover(uri) ==
    LET file == UriToPath(uri)
        s == Record(Self, LspIn("hover", uri))
    IN IF file = NoPath THEN ReturnEmpty(s, "hover", uri)
       ELSE Interrupting(s, "quickinfo", file)

\* signatureHelp, lines 540-547, and getSignatureHelp, lines 554-560
SignatureHelp(uri) ==
    LET file == UriToPath(uri)
        s == Record(Self, LspIn("signatureHelp", uri))
    IN IF file = NoPath THEN ReturnEmpty(s, "signatureHelp", uri)
       ELSE Interrupting(s, "signatureHelp", file)

\* codeAction, lines 566-575, and getCodeFixes, lines 580-582
CodeAction(uri) ==
    LET file == UriToPath(uri)
        s == Record(Self, LspIn("codeAction", uri))
    IN IF file = NoPath THEN ReturnEmpty(s, "codeAction", uri)
       ELSE Requesting(s, QueryReq("getCodeFixes", file))

\* getDefinition, lines 312-326, for definition, implementation and
\* typeDefinition, lines 290-310
GetDefinition(type, uri) ==
    LET file == UriToPath(uri)
        s == Record(Self, LspIn(type, uri))
    IN IF file = NoPath THEN ReturnEmpty(s, type, uri)
       ELSE Requesting(s, QueryReq(type, file))

Definition(uri) == GetDefinition("definition", uri)
Implementation(uri) == GetDefinition("implementation", uri)
TypeDefinition(uri) == GetDefinition("typeDefinition", uri)

\* documentSymbol, lines 330-339
DocumentSymbol(uri) ==
    LET file == UriToPath(uri)
        s == Record(Self, LspIn("documentSymbol", uri))
    IN IF file = NoPath THEN ReturnEmpty(s, "documentSymbol", uri)
       ELSE Requesting(s, TsOut("navtree", file))

\* rename, lines 439-450
Rename(uri, newName) ==
    LET file == UriToPath(uri)
        s == Record(Self, LspIn("rename", uri) @@ [newName |-> newName])
    IN IF file = NoPath THEN ReturnEmpty(s, "rename", uri)
       ELSE Requesting(s, QueryReq("rename", file))

\* references, lines 477-488
References(uri) ==
    LET file == UriToPath(uri)
        s == Record(Self, LspIn("references", uri))
    IN IF file = NoPath THEN ReturnEmpty(s, "references", uri)
       ELSE Requesting(s, QueryReq("references", file))

\* documentFormatting, lines 496-524: the configure request comes first; it
\* names no file, handler notes the editor's message it is issued for
DocumentFormatting(uri) ==
    LET file == UriToPath(uri)
        s == Record(Self, LspIn("documentFormatting", uri))
    IN IF file = NoPath THEN ReturnEmpty(s, "documentFormatting", uri)
       ELSE Requesting(s, [ch |-> "tsOut", cmd |-> "configure", handler |-> Len(s.trace)])

\* foldingRanges, lines 727-738
FoldingRanges(uri) ==
    LET file == UriToPath(uri)
        s == Record(Self, LspIn("foldingRanges", uri))
    IN IF file = NoPath THEN ReturnEmpty(s, "foldingRanges", uri)
       ELSE IF ~IsOpen(openedDocumentUris, uri)
       THEN \* throw new Error("The document should be opened for foldingRanges ...")
            Throw(s, uri)
       ELSE \* document is the LspDocument the handler holds across its await
            Requesting(s, TsOut("getOutliningSpans", file) @@
                          [document |-> Get(openedDocumentUris, uri)])

\* documentHighlight, lines 660-673
DocumentHighlight(uri) ==
    LET file == UriToPath(uri)
        s == Record(Self, LspIn("documentHighlight", uri))
    IN IF file = NoPath THEN ReturnEmpty(s, "documentHighlight", uri)
       ELSE Requesting(s, QueryReq("documentHighlights", file) @@ [filesToSearch |-> <<file>>])

-----------------------------------------------------------------------------
(* executeCommand. A value that may be undefined is a sequence of at most  *)
(* one element. A request the handler awaits notes in handler the editor's *)
(* message it is issued for, which holds the command and its arguments.    *)

APPLY_WORKSPACE_EDIT == "_typescript.applyWorkspaceEdit"
APPLY_CODE_ACTION == "_typescript.applyCodeAction"
APPLY_REFACTORING == "_typescript.applyRefactoring"
ORGANIZE_IMPORTS == "_typescript.organizeImports"
\* commands the client implements
APPLY_COMPLETION_CODE_ACTION == "_typescript.applyCompletionCodeAction"
SELECT_REFACTORING == "_typescript.selectRefactoring"

\* initialize, lines 126-133: the commands the server advertises
ExecuteCommandProvider ==
    {APPLY_WORKSPACE_EDIT, APPLY_CODE_ACTION, APPLY_REFACTORING, ORGANIZE_IMPORTS}

\* executeCommand names no document
NoDocument == ""
\* arg.arguments undefined
NoArguments == <<>>

\* a request to the editor, which the caller awaits
LspRequest(s, msg) ==
    [s EXCEPT !.trace = Append(@, msg), !.pending = @ \cup {Len(s.trace) + 1}]

\* the editor's answer to the request that is message seq of the trace
LspAnswer(seq, applied) ==
    [ch |-> "lspRe", cmd |-> "response", seq |-> seq, applied |-> applied]

\* toPosition: the analyzer's 1-based location as a 0-based position
ToPosition(location) == Position(location.line - 1, location.offset - 1)

\* applyFileCodeEdits, lines 650-653: changes[pathToUri(edit.fileName)] is
\* assigned for each entry in turn
FileCodeEditsToChanges(edits) ==
    [uri \in {PathToUri(edits[n].fileName) : n \in DOMAIN edits} |->
        LET last == CHOOSE n \in DOMAIN edits :
                       /\ PathToUri(edits[n].fileName) = uri
                       /\ \A m \in DOMAIN edits :
                             PathToUri(edits[m].fileName) = uri => m <= n
        IN edits[last].textChanges]

\* lspClient.applyWorkspaceEdit({edit}) issued for the handler of message k
ApplyWorkspaceEdit(s, k, edit) ==
    LspRequest(s, [ch |-> "lspOut", cmd |-> "applyWorkspaceEdit", uri |-> NoDocument,
                   edit |-> edit, handler |-> k])

\* applyFileCodeEdits, lines 646-656, for a list that is not empty
ApplyFileCodeEdits(s, k, edits) ==
    ApplyWorkspaceEdit(s, k, [changes |-> FileCodeEditsToChanges(edits)])

\* executeCommand returns
Done(s, k) == Record(s, LspOut("executeCommand", NoDocument) @@ [handler |-> k])

ApplyCodeActionCommand(k, command) ==
    [ch |-> "tsOut", cmd |-> "applyCodeActionCommand", command |-> command, handler |-> k]

\* executeCommand raising an error instead of handling or ignoring the command
ExecuteCommandThrows(command, arguments) ==
    /\ Commit(Record(Record(Self, LspIn("executeCommand", NoDocument) @@
                                      [command |-> command, arguments |-> arguments]),
                     LspOut("error", NoDocument)))
    /\ UNCHANGED <<openedDocumentUris, diagnosticQueue, now>>

\* executeCommand, lines 595-645, up to its first await
ExecuteCommand(command, arguments) ==
    LET s == Record(Self, LspIn("executeCommand", NoDocument) @@
                              [command |-> command, arguments |-> arguments])
        k == Len(s.trace)
        arg == arguments[1]
    IN /\ Commit(
              IF command = APPLY_WORKSPACE_EDIT /\ arguments # NoArguments
              THEN ApplyWorkspaceEdit(s, k, arg)
              ELSE IF command = APPLY_CODE_ACTION /\ arguments # NoArguments
              THEN IF arg.changes = <<>> THEN Done(s, k)
                   ELSE ApplyFileCodeEdits(s, k, arg.changes)
              ELSE IF command = APPLY_REFACTORING /\ arguments # NoArguments
              THEN TspRequest(s, [ch |-> "tsOut", cmd |-> "getEditsForRefactor",
                                  file |-> arg.file, handler |-> k])
              ELSE IF command = ORGANIZE_IMPORTS /\ arguments # NoArguments
              THEN TspRequest(s, [ch |-> "tsOut", cmd |-> "organizeImports",
                                  file |-> arg, handler |-> k])
              ELSE \* this.logger.error(`Unknown command ...`)
                   Done(s, k))
       /\ UNCHANGED <<openedDocumentUris, diagnosticQueue, now>>

\* the body of the answer that the handler of message k got to its request cmd
BodyOf(k, cmd) ==
    LET j == CHOOSE j \in DOMAIN trace :
                 /\ trace[j].ch = "tsIn" /\ trace[j].cmd = "response"
                 /\ trace[trace[j].seq].cmd = cmd
                 /\ trace[trace[j].seq].handler = k
    IN trace[j].body

\* the applyCodeActionCommand requests issued so far for the handler of k
CommandsSent(k) ==
    Cardinality({j \in DOMAIN trace : /\ trace[j].ch = "tsOut"
                                      /\ trace[j].cmd = "applyCodeActionCommand"
                                      /\ trace[j].handler = k})

\* the rename after a refactoring requested whatever the editor answered
ApplyEditAnsweredUnchecked(i, applied) ==
    /\ i \in pending /\ trace[i].ch = "lspOut" /\ trace[i].cmd = "applyWorkspaceEdit"
    /\ LET k == trace[i].handler
           arg == trace[k].arguments[1]
           s == Record([Self EXCEPT !.pending = @ \ {i}], LspAnswer(i, applied))
       IN Commit(
              IF trace[k].command = APPLY_CODE_ACTION /\ applied /\ arg.commands # <<>>
              THEN TspRequest(s, ApplyCodeActionCommand(k, arg.commands[1]))
              ELSE IF /\ trace[k].command = APPLY_REFACTORING
                      /\ BodyOf(k, "getEditsForRefactor")[1].renameLocation # <<>>
              THEN LspRequest(s, [ch |-> "lspOut", cmd |-> "rename",
                                  uri |-> PathToUri(arg.file),
                                  position |-> ToPosition(
                                      BodyOf(k, "getEditsForRefactor")[1].renameLocation[1]),
                                  handler |-> k])
              ELSE Done(s, k))
    /\ UNCHANGED <<openedDocumentUris, diagnosticQueue, now>>

\* the editor answers applyWorkspaceEdit: lines 599-601 (the command is
\* done), 604-609 (the first follow-up command of a code action), 621-631
\* (the rename after a refactoring), 641 (organize imports is done)
ApplyEditAnswered(i, applied) ==
    /\ i \in pending /\ trace[i].ch = "lspOut" /\ trace[i].cmd = "applyWorkspaceEdit"
    /\ LET k == trace[i].handler
           arg == trace[k].arguments[1]
           s == Record([Self EXCEPT !.pending = @ \ {i}], LspAnswer(i, applied))
       IN Commit(
              IF trace[k].command = APPLY_CODE_ACTION /\ applied /\ arg.commands # <<>>
              THEN TspRequest(s, ApplyCodeActionCommand(k, arg.commands[1]))
              ELSE IF /\ trace[k].command = APPLY_REFACTORING /\ applied
                      /\ BodyOf(k, "getEditsForRefactor")[1].renameLocation # <<>>
              THEN LspRequest(s, [ch |-> "lspOut", cmd |-> "rename",
                                  uri |-> PathToUri(arg.file),
                                  position |-> ToPosition(
                                      BodyOf(k, "getEditsForRefactor")[1].renameLocation[1]),
                                  handler |-> k])
              ELSE Done(s, k))
    /\ UNCHANGED <<openedDocumentUris, diagnosticQueue, now>>

\* lines 608-610: a follow-up command is answered, the next one is requested
CodeActionCommandAnswered(i) ==
    /\ i \in pending /\ trace[i].ch = "tsOut" /\ trace[i].cmd = "applyCodeActionCommand"
    /\ LET k == trace[i].handler
           commands == trace[k].arguments[1].commands
           s == Record([Self EXCEPT !.pending = @ \ {i}], TsResponse(i))
       IN Commit(IF CommandsSent(k) < Len(commands)
                 THEN TspRequest(s, ApplyCodeActionCommand(k, commands[CommandsSent(k) + 1]))
                 ELSE Done(s, k))
    /\ UNCHANGED <<openedDocumentUris, diagnosticQueue, now>>

\* lines 618-620: fs.ensureFile for each edit, in turn; the calls touch
\* nothing of the server and are put into the step that follows them
EnsureFiles(s, edits) ==
    [s EXCEPT !.trace = @ \o [n \in DOMAIN edits |->
                                 [ch |-> "fs", cmd |-> "ensureFile",
                                  file |-> edits[n].fileName]]]

\* lines 614-621: getEditsForRefactor is answered, with a body or none
EditsForRefactorAnswered(i, body) ==
    /\ i \in pending /\ trace[i].ch = "tsOut" /\ trace[i].cmd = "getEditsForRefactor"
    /\ LET k == trace[i].handler
           s == Record([Self EXCEPT !.pending = @ \ {i}], TsResponse(i) @@ [body |-> body])
       IN Commit(IF body = <<>> \/ body[1].edits = <<>> THEN Done(s, k)
                 ELSE ApplyFileCodeEdits(EnsureFiles(s, body[1].edits), k, body[1].edits))
    /\ UNCHANGED <<openedDocumentUris, diagnosticQueue, now>>

\* lines 635-641: organizeImports is answered with the edits of the file
OrganizeImportsAnswered(i, body) ==
    /\ i \in pending /\ trace[i].ch = "tsOut" /\ trace[i].cmd = "organizeImports"
    /\ LET k == trace[i].handler
           s == Record([Self EXCEPT !.pending = @ \ {i}], TsResponse(i) @@ [body |-> body])
       IN Commit(IF body = <<>> THEN Done(s, k) ELSE ApplyFileCodeEdits(s, k, body))
    /\ UNCHANGED <<openedDocumentUris, diagnosticQueue, now>>

\* lines 626-631: the editor answers the rename request
RenameAnswered(i) ==
    /\ i \in pending /\ trace[i].ch = "lspOut" /\ trace[i].cmd = "rename"
    /\ Commit(Done(Record([Self EXCEPT !.pending = @ \ {i}], LspAnswer(i, TRUE)),
                   trace[i].handler))
    /\ UNCHANGED <<openedDocumentUris, diagnosticQueue, now>>

-----------------------------------------------------------------------------
(* closeAll. The loop works on a record c of the server fields, s, and the *)
(* open-document map, docs.                                                *)

\* didCloseTextDocument, lines 229-244, called by closeAll
DidCloseCalled(c, uri) ==
    LET file == UriToPath(uri)
    IN IF file = NoPath THEN c
       ELSE [s |-> Record(TspNotify(c.s, TsOut("close", file)), PublishDiagnostics(uri, {})),
             docs |-> Delete(c.docs, uri)]

\* for (const [uri, doc] of this.openedDocumentUris), lines 61-70: the
\* iterator of a Map is a place in the list of its entries, in which a
\* deleted entry leaves no gap behind the iterator; index is the place among
\* the entries the map still has
RECURSIVE MapIterate(_, _)
MapIterate(c, index) ==
    IF index > Len(c.docs) THEN c
    ELSE LET after == DidCloseCalled(c, c.docs[index].uri)
             deleted == Len(c.docs) - Len(after.docs)
         IN MapIterate(after, index + 1 - deleted)

\* the loop going by the index into a list that shrinks under it
RECURSIVE IndexIterate(_, _)
IndexIterate(c, index) ==
    IF index > Len(c.docs) THEN c
    ELSE IndexIterate(DidCloseCalled(c, c.docs[index].uri), index + 1)

\* closeAll skipping the entry that moves into the place of a deleted one
CloseAllByIndex ==
    LET c == IndexIterate([s |-> Record(Self, LspIn("closeAll", NoDocument)),
                           docs |-> openedDocumentUris], 1)
    IN /\ openedDocumentUris' = c.docs
       /\ Commit(c.s)
       /\ UNCHANGED <<diagnosticQueue, now>>

\* closeAll, lines 60-71
CloseAll ==
    LET c == MapIterate([s |-> Record(Self, LspIn("closeAll", NoDocument)),
                         docs |-> openedDocumentUris], 1)
    IN /\ openedDocumentUris' = c.docs
       /\ Commit(c.s)
       /\ UNCHANGED <<diagnosticQueue, now>>

-----------------------------------------------------------------------------
(* What happens when an awaited request settles.                           *)

IsGeterr(i) == trace[i].ch = "tsOut" /\ trace[i].cmd = "geterr"

\* the geterr request answered while its waiter still waits: the finally
\* block runs in the same turn
GeterrResponse(i) ==
    /\ i \in pending /\ IsGeterr(i) /\ trace[i].tok \notin cancelled
    /\ diagnosticsTokenSource' =
           RequestDiagnosticsFinally(diagnosticsTokenSource, trace[i].tok)
    /\ pending' = pending \ {i}
    /\ trace' = Append(trace, TsResponse(i))
    /\ UNCHANGED <<openedDocumentUris, tokenSources, cancelled, diagnosticQueue, now>>

\* the geterr request released by the cancellation of its token: the finally
\* block runs once the handler that cancelled it has given up control
GeterrCancelled(i) ==
    /\ i \in pending /\ IsGeterr(i) /\ trace[i].tok \in cancelled
    /\ diagnosticsTokenSource' =
           RequestDiagnosticsFinally(diagnosticsTokenSource, trace[i].tok)
    /\ pending' = pending \ {i}
    /\ UNCHANGED <<openedDocumentUris, tokenSources, cancelled, diagnosticQueue, now,
                   trace>>

\* the handler whose result the answer to a request completes
HandlerOf(cmd) ==
    CASE cmd = "completions" -> "completion"
      [] cmd = "completionEntryDetails" -> "completionResolve"
      [] cmd = "quickinfo" -> "hover"
      [] cmd = "signatureHelp" -> "signatureHelp"
      [] cmd = "getApplicableRefactors" -> "codeAction"
      [] cmd = "navtree" -> "documentSymbol"
      [] cmd = "configure" -> "documentFormatting"
      [] cmd = "format" -> "documentFormatting"
      [] cmd = "getOutliningSpans" -> "foldingRanges"
      [] cmd = "documentHighlights" -> "documentHighlight"
      [] OTHER -> cmd

\* the document of the handler that awaits request i
UriOf(i) ==
    IF "file" \in DOMAIN trace[i] THEN PathToUri(trace[i].file)
    ELSE trace[trace[i].handler].uri

\* the requests whose answer the handler translates and returns
Translated ==
    {"completions", "completionEntryDetails", "quickinfo", "signatureHelp",
     "getApplicableRefactors", "definition", "implementation", "typeDefinition",
     "navtree", "rename", "references", "format", "getOutliningSpans",
     "documentHighlights"}

\* the requests whose failure the handler catches: getQuickInfo 434-436,
\* getSignatureHelp 561-563, getRefactors 590-592, documentHighlight 674-676
Caught == {"quickinfo", "signatureHelp", "getApplicableRefactors", "documentHighlights"}

\* codeAction, line 575: what provideQuickFix added to codeActions; request i
\* is the getApplicableRefactors request, issued right after the code fixes
\* were answered
QuickFixes(i) == IF Succeeded(trace[i - 1]) THEN {"quickfix"} ELSE {}

\* what the handler makes of the answer to request i
ResultOf(i, success) ==
    IF trace[i].cmd = "getApplicableRefactors"
    THEN QuickFixes(i) \cup (IF success THEN {"refactor"} ELSE {})
    ELSE IF success THEN {"body"} ELSE {}

\* completion 391-392, completionResolve 398-402, hover 413-425,
\* signatureHelp 548-552, codeAction 576-578: the answer is translated and
\* returned to the editor
QueryResponse(i) ==
    /\ i \in pending /\ trace[i].ch = "tsOut"
    /\ trace[i].cmd \in Translated
    /\ pending' = pending \ {i}
    /\ trace' = trace \o <<TsResponse(i),
                           Returns(HandlerOf(trace[i].cmd), UriOf(i), ResultOf(i, TRUE))>>
    /\ UNCHANGED <<openedDocumentUris, diagnosticsTokenSource, tokenSources, cancelled,
                   diagnosticQueue, now>>

\* codeAction, lines 575-576: with the code fixes at hand, the refactors are
\* requested (getRefactors, lines 587-589)
CodeFixesResponse(i) ==
    /\ i \in pending /\ trace[i].ch = "tsOut" /\ trace[i].cmd = "getCodeFixes"
    /\ Commit(TspRequest(
           Record([Self EXCEPT !.pending = @ \ {i}], TsResponse(i)),
           QueryReq("getApplicableRefactors", trace[i].file)))
    /\ UNCHANGED <<openedDocumentUris, diagnosticQueue, now>>

\* documentFormatting, lines 522-533: with the configure request answered,
\* the format request is issued, from line 1, offset 1 to the end of the file
ConfigureResponse(i) ==
    /\ i \in pending /\ trace[i].ch = "tsOut" /\ trace[i].cmd = "configure"
    /\ Commit(TspRequest(
           Record([Self EXCEPT !.pending = @ \ {i}], TsResponse(i)),
           QueryReq("format", UriToPath(UriOf(i))) @@ [end |-> "MAX_SAFE_INTEGER"]))
    /\ UNCHANGED <<openedDocumentUris, diagnosticQueue, now>>

\* rename with the list of a file assigned for each span group
RECURSIVE RenameChangesOverwriting(_, _, _)
RenameChangesOverwriting(changes, locs, newName) ==
    IF locs = <<>> THEN changes
    ELSE LET spanGroup == Head(locs)
             uri == PathToUri(spanGroup.file)
             pushed == [n \in DOMAIN spanGroup.locs |->
                           [newText |-> newName,
                            range |-> [start |-> ToPosition(spanGroup.locs[n].start),
                                       end |-> ToPosition(spanGroup.locs[n].end)]]]
         IN RenameChangesOverwriting((uri :> pushed) @@ changes, Tail(locs), newName)

\* rename, lines 458-472: workspaceEdit.changes after the span groups locs
\* were added, in order, to the changes so far; the text edits of a span
\* group are pushed to the list its file has, or to a new one
RECURSIVE RenameChanges(_, _, _)
RenameChanges(changes, locs, newName) ==
    IF locs = <<>> THEN changes
    ELSE LET spanGroup == Head(locs)
             uri == PathToUri(spanGroup.file)
             textEdits == IF uri \in DOMAIN changes THEN changes[uri] ELSE <<>>
             pushed == textEdits \o
                       [n \in DOMAIN spanGroup.locs |->
                           [newText |-> newName,
                            range |-> [start |-> ToPosition(spanGroup.locs[n].start),
                                       end |-> ToPosition(spanGroup.locs[n].end)]]]
         IN RenameChanges((uri :> pushed) @@ changes, Tail(locs), newName)

\* rename, lines 452-474: the analyzer's answer, with a body or none, is
\* made the workspace edit that is returned, or undefined is returned
RenameResponse(i, body) ==
    /\ i \in pending /\ trace[i].ch = "tsOut" /\ trace[i].cmd = "rename"
    /\ pending' = pending \ {i}
    /\ trace' = trace \o
           <<TsResponse(i) @@ [body |-> body],
             Returns("rename", UriOf(i),
                     IF body = <<>> \/ ~body[1].info.canRename \/ body[1].locs = <<>>
                     THEN {}
                     ELSE {[changes |-> RenameChanges(<<>>, body[1].locs,
                                                      trace[i - 1].newName)]})>>
    /\ UNCHANGED <<openedDocumentUris, diagnosticsTokenSource, tokenSources, cancelled,
                   diagnosticQueue, now>>

\* asRange: the analyzer's 1-based text span as a 0-based range
AsRange(textSpan) == RangeCreate(ToPosition(textSpan.start), ToPosition(textSpan.end))

\* asFoldingRangeKind, lines 777-785
NoKind == "undefined"
AsFoldingRangeKind(span) ==
    CASE span.kind = "comment" -> "comment"
      [] span.kind = "region" -> "region"
      [] span.kind = "imports" -> "imports"
      [] OTHER -> NoKind

\* /\/\/\s*#endregion/gi, line 758: somewhere in line stand two slashes,
\* white space or none, and #endregion in letters of either case
WhiteSpace == {" ", "\t", "\r", "\n"}
ToLower(ch) ==
    CASE ch = "E" -> "e" [] ch = "N" -> "n" [] ch = "D" -> "d" [] ch = "R" -> "r"
      [] ch = "G" -> "g" [] ch = "I" -> "i" [] ch = "O" -> "o" [] OTHER -> ch
Endregion == <<"#", "e", "n", "d", "r", "e", "g", "i", "o", "n">>
MatchesEndregion(line) ==
    \E i \in DOMAIN line, j \in DOMAIN line :
        /\ i + 2 <= j /\ j + Len(Endregion) - 1 <= Len(line)
        /\ line[i] = "/" /\ line[i + 1] = "/"
        /\ \A w \in (i + 2)..(j - 1) : line[w] \in WhiteSpace
        /\ \A e \in DOMAIN Endregion : ToLower(line[j + e - 1]) = Endregion[e]

\* asFoldingRange, lines 751-776: the folding range of an outlining span,
\* or none (the empty sequence)
AsFoldingRange(span, document) ==
    LET range == AsRange(span.textSpan)
        kind == AsFoldingRangeKind(span)
        startLine == range.start.line
        endLine == IF /\ range.end.character > 0
                      /\ GetTextRange(document,
                             RangeCreate(Position(range.end.line, range.end.character - 1),
                                         range.end)) = <<"}">>
                   THEN Max(range.end.line - 1, range.start.line)
                   ELSE range.end.line
    IN IF span.kind = "comment" /\ MatchesEndregion(GetLine(document, range.start.line))
       THEN <<>>
       ELSE <<[startLine |-> startLine, endLine |-> endLine, kind |-> kind]>>

\* foldingRanges, lines 742-749: the folding ranges of the spans, in order
RECURSIVE AsFoldingRanges(_, _)
AsFoldingRanges(body, document) ==
    IF body = <<>> THEN <<>>
    ELSE AsFoldingRange(Head(body), document) \o AsFoldingRanges(Tail(body), document)

\* foldingRanges, lines 738-749: the analyzer's answer, with a body or
\* none, is made the list of folding ranges, or undefined is returned
FoldingRangesResponse(i, body) ==
    /\ i \in pending /\ trace[i].ch = "tsOut" /\ trace[i].cmd = "getOutliningSpans"
    /\ pending' = pending \ {i}
    /\ trace' = trace \o
           <<TsResponse(i) @@ [body |-> body],
             Returns("foldingRanges", UriOf(i),
                     IF body = <<>> THEN {}
                     ELSE {AsFoldingRanges(body[1], trace[i].document)})>>
    /\ UNCHANGED <<openedDocumentUris, diagnosticsTokenSource, tokenSources, cancelled,
                   diagnosticQueue, now>>

\* no handler catching the failure of its request
QueryFailurePropagates(i) ==
    /\ i \in pending /\ trace[i].ch = "tsOut"
    /\ trace[i].cmd \in Translated \cup {"configure"}
    /\ pending' = pending \ {i}
    /\ trace' = trace \o <<TsFailure(i), LspOut("error", UriOf(i))>>
    /\ UNCHANGED <<openedDocumentUris, diagnosticsTokenSource, tokenSources, cancelled,
                   diagnosticQueue, now>>

\* the request fails: a handler that catches the failure returns its empty
\* result (for codeAction, what it has so far); from any other handler the
\* error goes to the editor
QueryFailure(i) ==
    /\ i \in pending /\ trace[i].ch = "tsOut"
    /\ trace[i].cmd \in Translated \cup {"configure"}
    /\ pending' = pending \ {i}
    /\ trace' = trace \o
           <<TsFailure(i),
             IF trace[i].cmd \in Caught
             THEN Returns(HandlerOf(trace[i].cmd), UriOf(i), ResultOf(i, FALSE))
             ELSE LspOut("error", UriOf(i))>>
    /\ UNCHANGED <<openedDocumentUris, diagnosticsTokenSource, tokenSources, cancelled,
                   diagnosticQueue, now>>

\* codeAction, lines 575-576, and getCodeFixes, lines 583-585: the failure is
\* caught, no quick fix is added, and the refactors are requested
CodeFixesFailure(i) ==
    /\ i \in pending /\ trace[i].ch = "tsOut" /\ trace[i].cmd = "getCodeFixes"
    /\ Commit(TspRequest(
           Record([Self EXCEPT !.pending = @ \ {i}], TsFailure(i)),
           QueryReq("getApplicableRefactors", trace[i].file)))
    /\ UNCHANGED <<openedDocumentUris, diagnosticQueue, now>>

\* the geterr request fails while its waiter still waits: the finally block
\* runs, and nobody handles the rejection
GeterrFailure(i) ==
    /\ i \in pending /\ IsGeterr(i) /\ trace[i].tok \notin cancelled
    /\ diagnosticsTokenSource' =
           RequestDiagnosticsFinally(diagnosticsTokenSource, trace[i].tok)
    /\ pending' = pending \ {i}
    /\ trace' = Append(trace, TsFailure(i))
    /\ UNCHANGED <<openedDocumentUris, tokenSources, cancelled, diagnosticQueue, now>>

-----------------------------------------------------------------------------
(* The events of the analyzer.                                             *)

DiagnosticKinds == {"semanticDiag", "syntaxDiag", "suggestionDiag"}

\* DiagnosticEventQueue.updateDiagnostics: the list of the kind is replaced
\* (kept here as "has diagnostics or not")
UpdateDiagnostics(queue, uri, kind, has) ==
    IF has THEN queue \cup {<<uri, kind>>} ELSE queue \ {<<uri, kind>>}

\* the union over the kinds that is published for uri
Published(queue, uri) == {kind \in DiagnosticKinds : <<uri, kind>> \in queue}

\* the files of the geterr rounds the analyzer was asked for
GeterrRequested ==
    UNION {Range(trace[i].files) : i \in {j \in DOMAIN trace : IsGeterr(j)}}

\* onTsEvent, lines 787-797, for a diagnostic event on file
OnTsEvent(event, file, has) ==
    /\ event \in DiagnosticKinds
    /\ file \in GeterrRequested
    /\ diagnosticQueue' = UpdateDiagnostics(diagnosticQueue, PathToUri(file), event, has)
    /\ trace' = trace \o
           <<TsEvent(event, file),
             PublishDiagnostics(PathToUri(file),
                                Published(diagnosticQueue', PathToUri(file)))>>
    /\ UNCHANGED <<openedDocumentUris, diagnosticsTokenSource, tokenSources, cancelled,
                   pending, now>>

\* the clock advances
Tick ==
    /\ now < MaxClock
    /\ now' = now + 1
    /\ UNCHANGED <<openedDocumentUris, diagnosticsTokenSource, tokenSources, cancelled,
                   pending, diagnosticQueue, trace>>

-----------------------------------------------------------------------------
(* Specifications.                                                         *)

Init ==
    /\ openedDocumentUris = <<>>
    /\ diagnosticsTokenSource = Undefined
    /\ tokenSources = 0
    /\ cancelled = {}
    /\ pending = {}
    /\ diagnosticQueue = {}
    /\ now = 0
    /\ trace = <<>>

Ops == Count(trace, "lspIn")
Events == Cardinality({i \in DOMAIN trace : trace[i].ch = "tsIn" /\ trace[i].cmd # "response"})
NextVersion == Ops + 1

TextA == <<"a">>
TextB == <<"b", "b">>

Settle ==
    \E i \in pending :
        \/ GeterrResponse(i)
        \/ GeterrCancelled(i)
        \/ QueryResponse(i)
        \/ CodeFixesResponse(i)

\* The server and the analyzer's answers, with every handler, on one file.
ProtocolUris == {"file:///a.ts"}

Next ==
    \/ /\ Ops < MaxOps
       /\ \E uri \in ProtocolUris :
            \/ DidOpenTextDocument(uri, NextVersion, TextA)
            \/ DidChangeTextDocument(uri, NextVersion, <<FullChange(TextB)>>)
            \/ DidCloseTextDocument(uri)
            \/ Completion(uri)
            \/ CompletionResolve(uri)
            \/ Hover(uri)
            \/ SignatureHelp(uri)
            \/ CodeAction(uri)
    \/ Settle

Spec == Init /\ [][Next]_vars

\* The same with the analyzer's diagnostic events, and completion as the query.
NextEvents ==
    \/ /\ Ops < MaxEventOps
       /\ \E uri \in ProtocolUris :
            \/ DidOpenTextDocument(uri, NextVersion, TextA)
            \/ DidChangeTextDocument(uri, NextVersion, <<FullChange(TextB)>>)
            \/ DidCloseTextDocument(uri)
            \/ Completion(uri)
    \/ Settle
    \/ /\ Events < MaxEvents
       /\ \E event \in DiagnosticKinds, file \in GeterrRequested, has \in BOOLEAN :
            OnTsEvent(event, file, has)

SpecEvents == Init /\ [][NextEvents]_vars

\* The text of one document under opens, changes and closes.
Texts == {<<"a", "\n", "b">>, <<"b">>, <<>>}

FullChanges == {FullChange(t) : t \in Texts}

RangedChanges ==
    {RangedChange(Position(0, 0), Position(0, 0), <<"c">>),
     RangedChange(Position(0, 0), Position(0, 1), <<>>),
     RangedChange(Position(0, 1), Position(1, 0), <<"c">>)}

ChangeLists ==
    {<<c>> : c \in FullChanges \cup RangedChanges}
    \cup {<<c, d>> : c \in RangedChanges, d \in {FullChange(<<"b">>)}}
    \cup {<<RangedChange(Position(0, 1), Position(1, 0), <<"c">>),
            RangedChange(Position(0, 0), Position(0, 1), <<>>)>>}

SettleGeterr == \E i \in pending : GeterrResponse(i) \/ GeterrCancelled(i)

NextText ==
    \/ /\ Ops < MaxEdits
       /\ \E uri \in ProtocolUris :
            \/ \E text \in Texts : DidOpenTextDocument(uri, NextVersion, text)
            \/ \E changes \in ChangeLists : DidChangeTextDocument(uri, NextVersion, changes)
            \/ DidCloseTextDocument(uri)
    \/ SettleGeterr

SpecText == Init /\ [][NextText]_vars

\* The last-access stamps of three documents, with the clock.
NextLru ==
    \/ /\ Ops < MaxLruOps
       /\ \E uri \in FileUris :
            \/ DidOpenTextDocument(uri, NextVersion, TextA)
            \/ DidChangeTextDocument(uri, NextVersion, <<FullChange(TextB)>>)
            \/ DidCloseTextDocument(uri)
    \/ Tick

SpecLru == Init /\ [][NextLru]_vars

\* Every handler that takes a URI, on a file and on a URI that is no file;
\* and the handlers that need an open document on a file that is never opened.
NonFileUri == "untitled:x"
HandlerUris == {"file:///a.ts", NonFileUri}
NeverOpened == "file:///b.ts"

SettleAnswered ==
    \E i \in pending :
        \/ GeterrResponse(i)
        \/ GeterrCancelled(i)
        \/ QueryResponse(i)
        \/ CodeFixesResponse(i)
        \/ ConfigureResponse(i)

NextUris ==
    \/ /\ Ops < MaxUriOps
       /\ \E uri \in HandlerUris :
            \/ DidOpenTextDocument(uri, NextVersion, TextA)
            \/ DidChangeTextDocument(uri, NextVersion, <<FullChange(TextB)>>)
            \/ DidCloseTextDocument(uri)
            \/ Definition(uri)
            \/ Implementation(uri)
            \/ TypeDefinition(uri)
            \/ References(uri)
            \/ DocumentSymbol(uri)
            \/ Hover(uri)
            \/ SignatureHelp(uri)
            \/ Completion(uri)
            \/ Rename(uri, "b")
            \/ DocumentFormatting(uri)
            \/ FoldingRanges(uri)
            \/ CodeAction(uri)
            \/ DocumentHighlight(uri)
    \/ /\ Ops < MaxUriOps
       /\ \/ DidChangeTextDocument(NeverOpened, NextVersion, <<FullChange(TextB)>>)
          \/ Completion(NeverOpened)
          \/ FoldingRanges(NeverOpened)
    \/ SettleAnswered

SpecUris == Init /\ [][NextUris]_vars

\* The analyzer answering or failing each request, on one file.
SettleEither ==
    \E i \in pending :
        \/ GeterrResponse(i)
        \/ GeterrCancelled(i)
        \/ GeterrFailure(i)
        \/ QueryResponse(i)
        \/ QueryFailure(i)
        \/ CodeFixesResponse(i)
        \/ CodeFixesFailure(i)

NextFailures ==
    \/ /\ Ops < MaxFailOps
       /\ \E uri \in ProtocolUris :
            \/ DidOpenTextDocument(uri, NextVersion, TextA)
            \/ DidChangeTextDocument(uri, NextVersion, <<FullChange(TextB)>>)
            \/ Completion(uri)
            \/ Hover(uri)
            \/ SignatureHelp(uri)
            \/ DocumentHighlight(uri)
            \/ CodeAction(uri)
    \/ SettleEither

SpecFailures == Init /\ [][NextFailures]_vars

\* executeCommand with the answers of the analyzer and of the editor. The
\* editor sends its next message when the command before has returned; a
\* document may be open, with its round in flight.
FileCodeEdits(fileName, textChanges) == [fileName |-> fileName, textChanges |-> textChanges]

EditLists ==
    {<<>>,
     <<FileCodeEdits("/a.ts", <<"t1">>)>>,
     <<FileCodeEdits("/a.ts", <<"t1">>), FileCodeEdits("/b.ts", <<"t2">>)>>,
     <<FileCodeEdits("/a.ts", <<"t1">>), FileCodeEdits("/a.ts", <<"t2">>)>>}

CodeActions ==
    {[changes |-> changes, commands |-> commands] :
        changes \in EditLists, commands \in {<<>>, <<"c1">>, <<"c1", "c2">>}}

RefactorBodies ==
    {<<>>} \cup
    {<<[edits |-> edits, renameLocation |-> location]>> :
        edits \in EditLists, location \in {<<>>, <<[line |-> 1, offset |-> 2]>>}}

UnknownCommands == {APPLY_COMPLETION_CODE_ACTION, SELECT_REFACTORING, "_typescript.unknown"}

NextCommands ==
    \/ /\ Ops < MaxCommands
       /\ \A i \in pending : IsGeterr(i)
       /\ \/ DidOpenTextDocument("file:///a.ts", NextVersion, TextA)
          \/ ExecuteCommand(APPLY_WORKSPACE_EDIT,
                             <<[changes |-> FileCodeEditsToChanges(
                                    <<FileCodeEdits("/a.ts", <<"t1">>)>>)]>>)
          \/ \E codeAction \in CodeActions : ExecuteCommand(APPLY_CODE_ACTION, <<codeAction>>)
          \/ ExecuteCommand(APPLY_REFACTORING, <<[file |-> "/a.ts", refactor |-> "r"]>>)
          \/ ExecuteCommand(ORGANIZE_IMPORTS, <<"/a.ts">>)
          \/ \E command \in UnknownCommands : ExecuteCommand(command, <<"x">>)
          \/ \E command \in UnknownCommands \cup ExecuteCommandProvider :
                ExecuteCommand(command, NoArguments)
    \/ \E i \in pending :
          \/ \E applied \in BOOLEAN : ApplyEditAnswered(i, applied)
          \/ CodeActionCommandAnswered(i)
          \/ \E body \in RefactorBodies : EditsForRefactorAnswered(i, body)
          \/ \E body \in EditLists : OrganizeImportsAnswered(i, body)
          \/ RenameAnswered(i)

SpecCommands == Init /\ [][NextCommands]_vars

\* The conversions of a Document between offsets and positions, for every
\* text of up to MaxLen code units with the line breaks \n, \r\n and \r.
CodeUnits == {"a", "\n", "\r"}

OffsetTexts == UNION {[1..n -> CodeUnits] : n \in 0..MaxLen}

InitOffsets ==
    /\ \E text \in OffsetTexts :
          openedDocumentUris = <<NewLspDocument("file:///a.ts", 1, text, 0)>>
    /\ diagnosticsTokenSource = Undefined
    /\ tokenSources = 0
    /\ cancelled = {}
    /\ pending = {}
    /\ diagnosticQueue = {}
    /\ now = 0
    /\ trace = <<>>

\* a call of positionAt or offsetAt, with what it returned
Call(cmd, offset, position) ==
    [ch |-> "call", cmd |-> cmd, offset |-> offset, position |-> position]

PositionAtCall(offset) ==
    /\ trace' = Append(trace, Call("positionAt", offset,
                                   LspDocumentPositionAt(openedDocumentUris[1], offset)))
    /\ UNCHANGED <<openedDocumentUris, diagnosticsTokenSource, tokenSources, cancelled,
                   pending, diagnosticQueue, now>>

OffsetAtCall(position) ==
    /\ trace' = Append(trace, Call("offsetAt",
                                   LspDocumentOffsetAt(openedDocumentUris[1], position),
                                   position))
    /\ UNCHANGED <<openedDocumentUris, diagnosticsTokenSource, tokenSources, cancelled,
                   pending, diagnosticQueue, now>>

NextOffsets ==
    /\ Len(trace) < MaxCalls
    /\ \/ \E offset \in 0..Len(GetText(openedDocumentUris[1])) : PositionAtCall(offset)
       \/ \E line \in 0..MaxLen, character \in 0..MaxLen :
             OffsetAtCall(Position(line, character))

SpecOffsets == InitOffsets /\ [][NextOffsets]_vars

\* The last-access stamps of two documents under changes and queries, with
\* the clock.
AccessUris == {"file:///a.ts", "file:///b.ts"}

NextAccess ==
    \/ /\ Ops < MaxAccessOps
       /\ \E uri \in AccessUris :
            \/ DidOpenTextDocument(uri, NextVersion, TextA)
            \/ DidChangeTextDocument(uri, NextVersion, <<FullChange(TextB)>>)
            \/ Completion(uri)
            \/ Hover(uri)
    \/ SettleGeterr
    \/ Tick

SpecAccess == Init /\ [][NextAccess]_vars

\* The re-arming of the diagnostics, with a completion whose request may
\* fail to be issued.
NextRearm ==
    \/ /\ Ops < MaxRearmOps
       /\ \E uri \in ProtocolUris :
            \/ DidOpenTextDocument(uri, NextVersion, TextA)
            \/ DidChangeTextDocument(uri, NextVersion, <<FullChange(TextB)>>)
            \/ Completion(uri)
            \/ CompletionCannotIssue(uri)
            \/ Hover(uri)
    \/ SettleAnswered

SpecRearm == Init /\ [][NextRearm]_vars

\* Opens, changes and closes of two documents, and closeAll.
NextClose ==
    \/ /\ Ops < MaxCloseOps
       /\ \/ \E uri \in AccessUris :
               \/ DidOpenTextDocument(uri, NextVersion, TextA)
               \/ DidChangeTextDocument(uri, NextVersion, <<FullChange(TextB)>>)
               \/ DidCloseTextDocument(uri)
          \/ CloseAll
    \/ SettleGeterr

SpecClose == Init /\ [][NextClose]_vars

\* rename with the answers of the analyzer: a location is a 1-based line
\* and offset, a span has a start and an end, a span group a file and spans.
Location(line, offset) == [line |-> line, offset |-> offset]
TextSpan(start, end) == [start |-> start, end |-> end]
SpanGroup(file, locs) == [file |-> file, locs |-> locs]

Span1 == TextSpan(Location(1, 7), Location(1, 8))
Span2 == TextSpan(Location(1, 14), Location(1, 15))
Span3 == TextSpan(Location(2, 1), Location(3, 2))

LocLists ==
    {<<>>,
     <<SpanGroup("/a.ts", <<Span1, Span2>>)>>,
     <<SpanGroup("/a.ts", <<Span1>>), SpanGroup("/b.ts", <<Span3>>)>>,
     <<SpanGroup("/a.ts", <<Span1>>), SpanGroup("/a.ts", <<Span2>>)>>,
     <<SpanGroup("/a.ts", <<Span1>>), SpanGroup("/b.ts", <<Span3>>),
       SpanGroup("/a.ts", <<Span2, Span3>>)>>}

RenameBodies ==
    {<<>>} \cup
    {<<[info |-> [canRename |-> canRename], locs |-> locs]>> :
        canRename \in BOOLEAN, locs \in LocLists}

NewNames == {"b", "c"}

NextRename ==
    \/ /\ Ops < MaxRenames
       /\ \E uri \in HandlerUris, newName \in NewNames : Rename(uri, newName)
    \/ \E i \in pending, body \in RenameBodies : RenameResponse(i, body)

SpecRename == Init /\ [][NextRename]_vars

\* The analyzer answers every request: no awaited request stays unsettled.
SpecLive == Init /\ [][Next]_vars /\ WF_vars(Settle)
SpecRearmLive == Init /\ [][NextRearm]_vars /\ WF_vars(SettleAnswered)

-----------------------------------------------------------------------------
(* What the claims speak of, read off the trace.                           *)

\* nothing has happened since the handler of the editor's message k ran:
\* what follows k in the trace is what that handler sent
Quiet(k) == \A j \in (k + 1)..Len(trace) : trace[j].ch \notin {"lspIn", "tsIn"}

IsTsOut(j, cmd) == j \in DOMAIN trace /\ trace[j].ch = "tsOut" /\ trace[j].cmd = cmd
IsLspOut(j, cmd) == j \in DOMAIN trace /\ trace[j].ch = "lspOut" /\ trace[j].cmd = cmd

\* a reference string buffer: a content change applied to a text
ApplyChange(text, change) ==
    IF ~HasRange(change) THEN change.text
    ELSE LET from == OffsetAt(text, change.range.start)
             to == OffsetAt(text, change.range.end)
         IN SubSeq(text, 1, from) \o change.text \o SubSeq(text, to + 1, Len(text))

RECURSIVE ApplyChanges(_, _)
ApplyChanges(text, changes) ==
    IF changes = <<>> THEN text
    ELSE ApplyChanges(ApplyChange(text, Head(changes)), Tail(changes))

Closed == [open |-> FALSE, text |-> <<>>]

\* the reference buffer of uri after the first k messages of the trace
RECURSIVE Reference(_, _)
Reference(uri, k) ==
    IF k = 0 THEN Closed
    ELSE LET m == trace[k]
             before == Reference(uri, k - 1)
         IN IF m.ch # "lspIn" \/ m.uri # uri THEN before
            ELSE IF m.cmd = "didOpen" THEN [open |-> TRUE, text |-> m.text]
            ELSE IF m.cmd = "didChange" /\ before.open
                 THEN [open |-> TRUE, text |-> ApplyChanges(before.text, m.contentChanges)]
            ELSE IF m.cmd = "didClose" THEN Closed
            ELSE before

\* uri was opened again while it was open, after the first k messages
ReopenedSinceOpen(uri, k) ==
    \E j \in 1..k :
        /\ trace[j].ch = "lspIn" /\ trace[j].cmd = "didOpen" /\ trace[j].uri = uri
        /\ Reference(uri, j - 1).open
        /\ \A i \in j..k : ~(trace[i].ch = "lspIn" /\ trace[i].cmd = "didClose"
                             /\ trace[i].uri = uri)

-----------------------------------------------------------------------------
(* C1: for every open document that was changed by didChangeTextDocument   *)
(* notifications, ranged or full, the text of its Document equals the text *)
(* of a reference buffer that started with the opened text and took the    *)
(* same edits in the same order.                                           *)
C1_DocumentTextIsReference ==
    \A i \in DOMAIN openedDocumentUris :
        LET document == openedDocumentUris[i]
            reference == Reference(document.uri, Len(trace))
        IN ~ReopenedSinceOpen(document.uri, Len(trace))
           => reference.open /\ GetText(document) = reference.text

(* C2: right after didOpenTextDocument for a file URI with text t, also of *)
(* a URI that is open already, the map holds the URI with text t; right    *)
(* after didCloseTextDocument the map does not hold it and an empty        *)
(* diagnostics publication for it was sent to the editor.                  *)
C2_OpenThenClose ==
    \A k \in DOMAIN trace :
        (trace[k].ch = "lspIn" /\ Quiet(k) /\ UriToPath(trace[k].uri) # NoPath) =>
            /\ trace[k].cmd = "didOpen" =>
                  /\ IsOpen(openedDocumentUris, trace[k].uri)
                  /\ GetText(Get(openedDocumentUris, trace[k].uri)) = trace[k].text
            /\ trace[k].cmd = "didClose" =>
                  /\ ~IsOpen(openedDocumentUris, trace[k].uri)
                  /\ \E j \in (k + 1)..Len(trace) :
                        /\ IsLspOut(j, "publishDiagnostics")
                        /\ trace[j].uri = trace[k].uri /\ trace[j].diags = {}

(* C3: the token in the diagnostics slot is live, and it is the only live  *)
(* one: it was not cancelled and its geterr request is still awaited, and  *)
(* every geterr request that is awaited under a token not cancelled is the *)
(* one of the slot. So no cancelled token is in the slot while the request *)
(* of an interrupting query is pending.                                    *)
LiveTokens == {trace[i].tok : i \in {j \in pending : IsGeterr(j) /\ trace[j].tok \notin cancelled}}

C3_TokenInSlotIsLive ==
    /\ diagnosticsTokenSource \in 0..tokenSources
    /\ diagnosticsTokenSource # Undefined => diagnosticsTokenSource \in LiveTokens
    /\ LiveTokens \subseteq {diagnosticsTokenSource}

\* a query interrupted a round: its request and the round it cancelled are
\* both still awaited, and the slot holds the token of the new round
C3_Witness ==
    /\ diagnosticsTokenSource # Undefined
    /\ \E i \in pending : trace[i].cmd = "quickinfo"
    /\ \E i \in pending : IsGeterr(i) /\ trace[i].tok \in cancelled

(* C4, as claimed: a document is opened and completion is requested right  *)
(* afterwards; then no publishDiagnostics reaches the editor before the    *)
(* completion response, and once the completion has returned exactly one   *)
(* geterr round was issued after it.                                       *)
C4_Scenario ==
    /\ Ops = 2 /\ Len(trace) >= 4
    /\ trace[1].ch = "lspIn" /\ trace[1].cmd = "didOpen"
    /\ trace[4].ch = "lspIn" /\ trace[4].cmd = "completion" /\ trace[4].uri = trace[1].uri

C4_CompletionBeforeDiagnostics ==
    C4_Scenario =>
        /\ \A j \in DOMAIN trace :
              IsLspOut(j, "publishDiagnostics") => \E r \in 1..(j - 1) : IsLspOut(r, "completion")
        /\ \A r \in DOMAIN trace :
              IsLspOut(r, "completion") =>
                  Cardinality({j \in (r + 1)..Len(trace) : IsTsOut(j, "geterr")}) = 1

(* C4, amended: a document is opened and completion is requested right     *)
(* afterwards; then the round of the open is cancelled, the completions    *)
(* request is sent, and exactly one new geterr round is issued, right      *)
(* after that request and before the completion returns; none is issued    *)
(* when it returns.                                                        *)
C4_CompletionThenOneRound ==
    C4_Scenario =>
        /\ IsTsOut(3, "geterr") /\ trace[3].tok \in cancelled
        /\ IsTsOut(5, "completions")
        /\ IsTsOut(6, "geterr") /\ trace[6].tok \notin cancelled
        /\ Cardinality({j \in 5..Len(trace) : IsTsOut(j, "geterr")}) = 1
        /\ \A r \in DOMAIN trace : IsLspOut(r, "completion") => r > 6

\* the completion has returned, and diagnostics were published before it
C4_Witness ==
    /\ C4_Scenario
    /\ \E r \in DOMAIN trace :
          /\ IsLspOut(r, "completion")
          /\ \E j \in 1..(r - 1) : IsLspOut(j, "publishDiagnostics")

(* C5: the file list of every geterr request holds exactly the documents   *)
(* open when it is issued, each once, the one least recently opened or     *)
(* changed first and the one most recently opened or changed last.         *)
LastTouch(uri, j) ==
    LET touches == {k \in 1..j : /\ trace[k].ch = "lspIn"
                                 /\ trace[k].cmd \in {"didOpen", "didChange"}
                                 /\ trace[k].uri = uri}
    IN IF touches = {} THEN 0 ELSE CHOOSE k \in touches : \A l \in touches : l <= k

OpenAt(j) == {uri \in FileUris : Reference(uri, j).open}

C5_GeterrFilesLeastRecentFirst ==
    \A j \in DOMAIN trace :
        IsTsOut(j, "geterr") =>
            LET files == trace[j].files IN
            /\ Range(files) = {UriToPath(uri) : uri \in OpenAt(j)}
            /\ Len(files) = Cardinality(OpenAt(j))
            /\ \A a, b \in DOMAIN files :
                  a < b => LastTouch(PathToUri(files[a]), j) < LastTouch(PathToUri(files[b]), j)

(* C6: when a query that goes through interuptDiagnostics finds a round in *)
(* flight, that round is cancelled and the analyzer is sent the request of *)
(* the query and then, at once, the geterr request of a new round: no      *)
(* geterr goes between the cancellation and the query's request, and the   *)
(* new geterr does not wait for the query's answer.                        *)
InterruptingQueries == {"completion", "completionResolve", "hover", "signatureHelp"}

RequestOf(cmd) ==
    CASE cmd = "completion" -> "completions"
      [] cmd = "completionResolve" -> "completionEntryDetails"
      [] cmd = "hover" -> "quickinfo"
      [] cmd = "signatureHelp" -> "signatureHelp"
      [] cmd = "codeAction" -> "getCodeFixes"

\* the editor's message k is a query of kinds that found a round in flight
\* and issued a request
Interrupts(k, kinds) ==
    /\ trace[k].ch = "lspIn" /\ trace[k].cmd \in kinds
    /\ trace[k].tok # Undefined
    /\ k + 1 <= Len(trace) /\ trace[k + 1].ch = "tsOut"

C6_QueryRequestThenGeterr ==
    \A k \in DOMAIN trace :
        Interrupts(k, InterruptingQueries) =>
            /\ trace[k].tok \in cancelled
            /\ IsTsOut(k + 1, RequestOf(trace[k].cmd))
            /\ IsTsOut(k + 2, "geterr") /\ trace[k + 2].tok # trace[k].tok

\* a hover interrupted a round; the new round is out, the answer is not in
C6_Witness ==
    \E k \in DOMAIN trace :
        /\ Interrupts(k, {"hover"})
        /\ IsTsOut(k + 2, "geterr")
        /\ (k + 1) \in pending

(* C7: for completion, completion-resolve, hover, signature-help and       *)
(* code-action alike, a round in flight when the query is handled is       *)
(* cancelled before the request of the query is issued.                    *)
C7_QueriesCancelTheRound ==
    \A k \in DOMAIN trace :
        Interrupts(k, InterruptingQueries \cup {"codeAction"}) =>
            /\ trace[k].tok \in cancelled
            /\ diagnosticsTokenSource # trace[k].tok
            /\ IsTsOut(k + 1, RequestOf(trace[k].cmd))

(* C8: didOpenTextDocument for a URI that is in the map sends the analyzer *)
(* no `open` and adds no second entry to the map; it sends exactly one     *)
(* `change` that inserts the opened text, and then exactly one geterr.     *)
C8_ReopenIsOneFullChange ==
    /\ \A uri \in FileUris :
          Cardinality({i \in DOMAIN openedDocumentUris : openedDocumentUris[i].uri = uri}) <= 1
    /\ \A k \in DOMAIN trace :
          (/\ trace[k].ch = "lspIn" /\ trace[k].cmd = "didOpen"
           /\ Reference(trace[k].uri, k - 1).open) =>
              /\ IsTsOut(k + 1, "change")
              /\ trace[k + 1].file = UriToPath(trace[k].uri)
              /\ trace[k + 1].insertString = trace[k].text
              /\ trace[k + 1].line = 1 /\ trace[k + 1].offset = 1
              /\ IsTsOut(k + 2, "geterr")
              /\ (k + 3) \in DOMAIN trace => trace[k + 3].ch # "tsOut"

\* an open document was just opened again, with another text
C8_Witness ==
    \E k \in DOMAIN trace :
        /\ trace[k].ch = "lspIn" /\ trace[k].cmd = "didOpen" /\ Quiet(k)
        /\ Reference(trace[k].uri, k - 1).open
        /\ Reference(trace[k].uri, k - 1).text # trace[k].text

(* C9: for a content change without a range, the `change` sent to the      *)
(* analyzer spans from (line 1, offset 1) to the end of the document's     *)
(* current text, the text after all the changes applied before it.         *)
C9_FullChangeSpansCurrentText ==
    \A k \in DOMAIN trace :
        (/\ trace[k].ch = "lspIn" /\ trace[k].cmd = "didChange"
         /\ Reference(trace[k].uri, k - 1).open) =>
            \A n \in DOMAIN trace[k].contentChanges :
                ~HasRange(trace[k].contentChanges[n]) =>
                    LET current == ApplyChanges(Reference(trace[k].uri, k - 1).text,
                                                SubSeq(trace[k].contentChanges, 1, n - 1))
                        endPos == PositionAt(current, Len(current))
                    IN /\ IsTsOut(k + n, "change")
                       /\ trace[k + n].line = 1 /\ trace[k + n].offset = 1
                       /\ trace[k + n].endLine = endPos.line + 1
                       /\ trace[k + n].endOffset = endPos.character + 1
                       /\ trace[k + n].insertString = trace[k].contentChanges[n].text

(* C10: from didCloseTextDocument for a URI until the URI is opened again, *)
(* the latest diagnostics publication the editor has for it is the empty   *)
(* list, whatever events of a round in flight arrive in between.           *)
C10_ClosedFileStaysClear ==
    \A k \in DOMAIN trace :
        (/\ trace[k].ch = "lspIn" /\ trace[k].cmd = "didClose"
         /\ UriToPath(trace[k].uri) # NoPath
         /\ \A j \in (k + 1)..Len(trace) :
               ~(trace[j].ch = "lspIn" /\ trace[j].cmd = "didOpen"
                 /\ trace[j].uri = trace[k].uri)) =>
            LET published == {j \in (k + 1)..Len(trace) :
                                 IsLspOut(j, "publishDiagnostics")
                                 /\ trace[j].uri = trace[k].uri}
            IN /\ published # {}
               /\ \A j \in published :
                     (\A l \in published : l <= j) => trace[j].diags = {}

\* the step is the handler of a message cmd of the editor, which is the
\* first message the step adds to the trace
Handles(cmds) ==
    /\ Len(trace') > Len(trace)
    /\ trace'[Len(trace) + 1].ch = "lspIn"
    /\ trace'[Len(trace) + 1].cmd \in cmds

Handled == trace'[Len(trace) + 1]

\* the handlers that take the URI of a document
Notifications == {"didOpen", "didChange", "didClose"}
UriQueries ==
    {"definition", "implementation", "typeDefinition", "references", "documentSymbol",
     "hover", "signatureHelp", "completion", "rename", "documentFormatting",
     "foldingRanges", "codeAction", "documentHighlight"}

\* the server's state but for the trace is as it was
StateUnchanged ==
    UNCHANGED <<openedDocumentUris, diagnosticsTokenSource, tokenSources, cancelled,
                pending, diagnosticQueue>>

(* C11: a handler that takes a URI, given a URI that is no file, returns   *)
(* its empty result (a notification returns nothing), raises no error,     *)
(* sends the analyzer nothing and leaves the open-document map with its    *)
(* stamps, the token slot and the pending requests as they were.           *)
C11_NoPathReturnsEmpty ==
    [][(Handles(Notifications \cup UriQueries) /\ UriToPath(Handled.uri) = NoPath) =>
          /\ trace' = trace \o <<Handled>> \o
                 (IF Handled.cmd \in Notifications THEN <<>>
                  ELSE <<Returns(Handled.cmd, Handled.uri, {})>>)
          /\ StateUnchanged]_vars

\* with a document open and its round in flight, a hover and a close came
\* for the URI that is no file
C11_Witness ==
    /\ openedDocumentUris # <<>> /\ diagnosticsTokenSource # Undefined
    /\ trace[Len(trace)].ch = "lspOut" /\ trace[Len(trace)].cmd = "hover"
    /\ trace[Len(trace)].uri = NonFileUri

(* C12: didChange, completion and foldingRanges for a file URI that is not *)
(* in the open-document map fail with an error to the caller and change    *)
(* nothing: no message to the analyzer, no round cancelled or started, no  *)
(* stamp updated, the map as it was.                                       *)
C12_NotOpenFailsCleanly ==
    [][(/\ Handles({"didChange", "completion", "foldingRanges"})
        /\ UriToPath(Handled.uri) # NoPath
        /\ ~IsOpen(openedDocumentUris, Handled.uri)) =>
          /\ trace' = trace \o <<Handled, LspOut("error", Handled.uri)>>
          /\ StateUnchanged]_vars

\* with another document open and its round in flight, a completion came
\* for a file that is not open, and failed
C12_Witness ==
    /\ openedDocumentUris # <<>> /\ diagnosticsTokenSource # Undefined
    /\ Len(trace) >= 2
    /\ trace[Len(trace)].ch = "lspOut" /\ trace[Len(trace)].cmd = "error"
    /\ trace[Len(trace) - 1].ch = "lspIn" /\ trace[Len(trace) - 1].cmd = "completion"
    /\ ~IsOpen(openedDocumentUris, trace[Len(trace)].uri)

\* message j is the failure response to a request cmd
IsFailure(j, cmd) ==
    /\ j \in DOMAIN trace /\ trace[j].ch = "tsIn" /\ trace[j].cmd = "response"
    /\ ~Succeeded(trace[j])
    /\ trace[trace[j].seq].cmd = cmd

\* the answer to request i, 0 while there is none
AnswerTo(i) ==
    LET answers == {j \in DOMAIN trace : /\ trace[j].ch = "tsIn"
                                         /\ trace[j].cmd = "response"
                                         /\ trace[j].seq = i}
    IN IF answers = {} THEN 0 ELSE CHOOSE j \in answers : TRUE

(* C13: when the analyzer's request fails for hover, signature-help or     *)
(* document-highlight, the handler returns its empty result and no error;  *)
(* when getCodeFixes fails, codeAction goes on to the refactors and        *)
(* returns them without quick fixes; when getApplicableRefactors fails, it *)
(* returns the quick fixes it has; and a hover or signature-help that had  *)
(* interrupted a round has issued the new round all the same.              *)
C13_FailureGivesEmptyResult ==
    \A j \in DOMAIN trace :
        /\ \A cmd \in {"quickinfo", "signatureHelp", "documentHighlights"} :
              IsFailure(j, cmd) =>
                  /\ trace[j + 1] = Returns(HandlerOf(cmd), PathToUri(trace[trace[j].seq].file), {})
                  /\ (trace[trace[j].seq - 1].ch = "lspIn"
                      /\ trace[trace[j].seq - 1].tok # Undefined
                      /\ cmd # "documentHighlights")
                     => IsTsOut(trace[j].seq + 1, "geterr")
        /\ IsFailure(j, "getCodeFixes") =>
              /\ IsTsOut(j + 1, "getApplicableRefactors")
              /\ AnswerTo(j + 1) # 0 =>
                    /\ IsLspOut(AnswerTo(j + 1) + 1, "codeAction")
                    /\ trace[AnswerTo(j + 1) + 1].result =
                           IF Succeeded(trace[AnswerTo(j + 1)]) THEN {"refactor"} ELSE {}
        /\ IsFailure(j, "getApplicableRefactors") =>
              /\ IsLspOut(j + 1, "codeAction")
              /\ trace[j + 1].result =
                     IF Succeeded(trace[trace[j].seq - 1]) THEN {"quickfix"} ELSE {}

\* a hover interrupted a round and its quickinfo request failed
C13_Witness ==
    \E j \in DOMAIN trace :
        /\ IsFailure(j, "quickinfo")
        /\ trace[trace[j].seq - 1].tok # Undefined
        /\ IsLspOut(j + 1, "hover")

\* a code action returned its refactors although its code fixes had failed
C13_CodeActionPartly ==
    \E j \in DOMAIN trace :
        /\ IsFailure(j, "getCodeFixes")
        /\ AnswerTo(j + 1) # 0 /\ Succeeded(trace[AnswerTo(j + 1)])

(* C19: the step in which a geterr request completes, by its response, by *)
(* the cancellation of its token or by a failure, clears the token slot if *)
(* the slot holds the token of that request and leaves it alone otherwise, *)
(* and cancels no token: a round that completes late, after a newer round  *)
(* has taken the slot, neither clears nor cancels the newer token.         *)
C19_FinallyClearsOwnTokenOnly ==
    [][\A i \in pending :
          (IsGeterr(i) /\ i \notin pending') =>
              /\ diagnosticsTokenSource' =
                     IF diagnosticsTokenSource = trace[i].tok THEN Undefined
                     ELSE diagnosticsTokenSource
              /\ cancelled' = cancelled]_vars

\* a cancelled round has completed while the round that replaced it is in
\* flight, and the slot holds the token of the newer round
C19_Witness ==
    \E i \in DOMAIN trace :
        /\ IsGeterr(i) /\ i \notin pending /\ trace[i].tok \in cancelled
        /\ diagnosticsTokenSource > trace[i].tok
        /\ \E j \in pending : IsGeterr(j) /\ trace[j].tok = diagnosticsTokenSource

\* the handler of executeCommand issued a request, to the analyzer or to
\* the editor, in the step that handled the command
Issued ==
    /\ Len(trace') >= Len(trace) + 2
    /\ \/ trace'[Len(trace) + 2].ch = "tsOut"
       \/ /\ trace'[Len(trace) + 2].ch = "lspOut"
          /\ trace'[Len(trace) + 2].cmd \in {"applyWorkspaceEdit", "rename"}

(* C14: executeCommand with a command that is none of the four the server  *)
(* advertises in executeCommandProvider returns without an error, issues   *)
(* no request to the analyzer and sends the editor no applyEdit and no     *)
(* rename; with one of the four, and arguments that give it something to   *)
(* do, it issues a request: the commands handled are the advertised ones.  *)
C14_UnknownCommandIsIgnored ==
    [][Handles({"executeCommand"}) =>
          /\ Handled.command \notin ExecuteCommandProvider =>
                /\ trace' = trace \o <<Handled, LspOut("executeCommand", NoDocument)
                                                 @@ [handler |-> Len(trace) + 1]>>
                /\ StateUnchanged
          /\ (/\ Handled.command \in ExecuteCommandProvider
              /\ Handled.arguments # NoArguments
              /\ Handled.command = APPLY_CODE_ACTION => Handled.arguments[1].changes # <<>>)
             => Issued]_vars

\* with a round in flight, a command of the client's was executed, with
\* arguments, and ignored
C14_Witness ==
    /\ diagnosticsTokenSource # Undefined /\ pending # {}
    /\ Len(trace) >= 2
    /\ trace[Len(trace) - 1].ch = "lspIn" /\ trace[Len(trace) - 1].cmd = "executeCommand"
    /\ trace[Len(trace) - 1].command = SELECT_REFACTORING
    /\ trace[Len(trace) - 1].arguments # NoArguments
    /\ IsLspOut(Len(trace), "executeCommand")

(* C15: for every Document and every offset o from 0 to the length of its  *)
(* text, offsetAt(positionAt(o)) = o, whichever of the line breaks \n,     *)
(* \r\n and \r the text uses; and offsetAt returns o for every position    *)
(* that a call of positionAt(o) has returned.                              *)
C15_OffsetAtPositionAt ==
    \A i \in DOMAIN openedDocumentUris :
        LET D == openedDocumentUris[i] IN
        /\ \A o \in 0..Len(GetText(D)) :
              LspDocumentOffsetAt(D, LspDocumentPositionAt(D, o)) = o
        /\ \A k \in DOMAIN trace :
              (trace[k].ch = "call" /\ trace[k].cmd = "positionAt") =>
                  LspDocumentOffsetAt(D, trace[k].position) = trace[k].offset

\* in a text with the break \r\n and a line after it, positionAt was called
\* for the offset at the end of the second line
C15_Witness ==
    /\ GetText(openedDocumentUris[1]) = <<"\r", "\n", "a">>
    /\ Len(trace) = 1
    /\ trace[1] = Call("positionAt", 3, Position(1, 1))

(* C16: right after a change notification with version v for an open       *)
(* document, the version of its Document is v.                             *)
C16_VersionIsTheNotified ==
    \A k \in DOMAIN trace :
        (/\ trace[k].ch = "lspIn" /\ trace[k].cmd = "didChange" /\ Quiet(k)
         /\ IsOpen(openedDocumentUris, trace[k].uri)) =>
            Get(openedDocumentUris, trace[k].uri).version = trace[k].version

\* the geterr request that the step sent, 0 if it sent none
GeterrSent ==
    LET sent == {j \in (Len(trace) + 1)..Len(trace') :
                    trace'[j].ch = "tsOut" /\ trace'[j].cmd = "geterr"}
    IN IF sent = {} THEN 0 ELSE CHOOSE j \in sent : TRUE

(* C17: a change notification or a query (completion, hover) served for an *)
(* open document refreshes its last-access stamp, so that in the geterr    *)
(* request the handler issues the document comes last, whenever the clock  *)
(* has advanced since the other documents were accessed.                   *)
C17_QueriedDocumentComesLast ==
    [][(/\ Handles({"didChange", "completion", "hover"})
        /\ IsOpen(openedDocumentUris, Handled.uri)
        /\ GeterrSent # 0
        /\ \A i \in DOMAIN openedDocumentUris :
              openedDocumentUris[i].uri # Handled.uri
                  => openedDocumentUris[i].lastAccessed < now) =>
          LET files == trace'[GeterrSent].files
          IN files[Len(files)] = UriToPath(Handled.uri)]_vars

(* C18: for a change notification on an open document, the analyzer is     *)
(* sent one `change` per content change, in the order of the entries, each *)
(* with the text of the entry as insert string and, for an entry with a    *)
(* range, its start and end as (line + 1, character + 1); then exactly one *)
(* geterr request. And before every `change` for a file the analyzer was   *)
(* sent an `open` for it, with no `close` in between.                      *)
C18_ChangesInOrderThenGeterr ==
    /\ \A k \in DOMAIN trace :
          (/\ trace[k].ch = "lspIn" /\ trace[k].cmd = "didChange"
           /\ Reference(trace[k].uri, k - 1).open) =>
              LET changes == trace[k].contentChanges
                  n == Len(changes)
              IN /\ \A m \in 1..n :
                        /\ IsTsOut(k + m, "change")
                        /\ trace[k + m].file = UriToPath(trace[k].uri)
                        /\ trace[k + m].insertString = changes[m].text
                        /\ HasRange(changes[m]) =>
                              /\ trace[k + m].line = changes[m].range.start.line + 1
                              /\ trace[k + m].offset = changes[m].range.start.character + 1
                              /\ trace[k + m].endLine = changes[m].range.end.line + 1
                              /\ trace[k + m].endOffset = changes[m].range.end.character + 1
                 /\ IsTsOut(k + n + 1, "geterr")
                 /\ (k + n + 2) \in DOMAIN trace => trace[k + n + 2].ch # "tsOut"
    /\ \A j \in DOMAIN trace :
          IsTsOut(j, "change") =>
              \E i \in 1..(j - 1) :
                  /\ IsTsOut(i, "open") /\ trace[i].file = trace[j].file
                  /\ \A c \in i..j : ~(IsTsOut(c, "close") /\ trace[c].file = trace[j].file)

\* a change notification with two ranged content changes was handled
C18_Witness ==
    \E k \in DOMAIN trace :
        /\ trace[k].ch = "lspIn" /\ trace[k].cmd = "didChange" /\ Quiet(k)
        /\ Reference(trace[k].uri, k - 1).open
        /\ Len(trace[k].contentChanges) = 2
        /\ \A m \in 1..2 : HasRange(trace[k].contentChanges[m])
        /\ Len(trace) = k + 3

(* C20: whenever the server cancels a geterr round it issues a new round   *)
(* in the same handler step, also when the request of the interrupting     *)
(* query cannot be issued.                                                 *)
C20_CancelledRoundIsReplaced ==
    [][cancelled' # cancelled => GeterrSent # 0]_vars

\* a geterr round issued after message k has completed without having been
\* cancelled
Served(k) ==
    \E j \in (k + 1)..Len(trace) :
        IsGeterr(j) /\ j \notin pending /\ trace[j].tok \notin cancelled

(* C20, the consequence: when the analyzer answers every request and the   *)
(* editor's messages stop, every open or change notification the server    *)
(* accepted is in the end followed by a geterr round that was issued at or *)
(* after it and completed without having been cancelled. It holds of       *)
(* SpecLive, where every request can be issued, and not of SpecRearmLive.  *)
C20_EveryNotificationGetsItsRound ==
    <>[](\A k \in DOMAIN trace :
            (/\ trace[k].ch = "lspIn" /\ trace[k].cmd \in {"didOpen", "didChange"}
             /\ IsTsOut(k + 1, "open") \/ IsTsOut(k + 1, "change")) => Served(k))

\* the files the analyzer was told are open by the first k messages: those
\* with an `open` that no `close` follows
ToldOpen(k) ==
    {trace[i].file : i \in {j \in 1..k :
        /\ IsTsOut(j, "open")
        /\ \A c \in (j + 1)..k : ~(IsTsOut(c, "close") /\ trace[c].file = trace[j].file)}}

MapPaths == {UriToPath(openedDocumentUris[i].uri) : i \in DOMAIN openedDocumentUris}

\* the files the analyzer was told are open are the paths of the map; no
\* second `open` without a `close`, no `change` for a file not told open
C21_ToldOpenIsTheMap ==
    /\ ToldOpen(Len(trace)) = MapPaths
    /\ \A j \in DOMAIN trace :
          /\ IsTsOut(j, "open") => trace[j].file \notin ToldOpen(j - 1)
          /\ IsTsOut(j, "change") => trace[j].file \in ToldOpen(j - 1)

(* C21: after any sequence of open, change, close and closeAll, the files   *)
(* the analyzer was told are open are the paths of the open-document map;   *)
(* the analyzer gets no second `open` for a file without a `close` between, *)
(* no `change` for a file it was not told is open, and no `close` for a     *)
(* file that is not open.                                                   *)
C21_AnalyzerOpenSetIsTheMap ==
    /\ C21_ToldOpenIsTheMap
    /\ \A j \in DOMAIN trace :
          IsTsOut(j, "close") => trace[j].file \in ToldOpen(j - 1)

(* C22: closeAll closes every open document: afterwards the map is empty,   *)
(* and for each URI that was open it sent the analyzer exactly one `close`  *)
(* and the editor exactly one empty diagnostics publication, and nothing    *)
(* else; no document is skipped.                                            *)
C22_CloseAllClosesEvery ==
    [][Handles({"closeAll"}) =>
          LET sent == SubSeq(trace', Len(trace) + 2, Len(trace'))
          IN /\ openedDocumentUris' = <<>>
             /\ Len(sent) = 2 * Len(openedDocumentUris)
             /\ \A i \in DOMAIN openedDocumentUris :
                   LET uri == openedDocumentUris[i].uri
                   IN /\ Cardinality({j \in DOMAIN sent :
                             sent[j] = TsOut("close", UriToPath(uri))}) = 1
                      /\ Cardinality({j \in DOMAIN sent :
                             sent[j] = PublishDiagnostics(uri, {})}) = 1
             /\ UNCHANGED <<diagnosticsTokenSource, tokenSources, cancelled, pending,
                            diagnosticQueue>>]_vars

\* closeAll has just closed two open documents
C22_Witness ==
    /\ Len(trace) >= 5
    /\ trace[Len(trace) - 4].ch = "lspIn" /\ trace[Len(trace) - 4].cmd = "closeAll"
    /\ IsTsOut(Len(trace) - 3, "close") /\ IsTsOut(Len(trace) - 1, "close")
    /\ trace[Len(trace) - 3].file # trace[Len(trace) - 1].file
    /\ openedDocumentUris = <<>>

\* the editor's message k is executeCommand for command, with arguments
Executes(k, command) ==
    /\ trace[k].ch = "lspIn" /\ trace[k].cmd = "executeCommand"
    /\ trace[k].command = command /\ trace[k].arguments # NoArguments

\* the handler of the editor's message k has returned
Returned(k) == \E j \in DOMAIN trace : IsLspOut(j, "executeCommand") /\ trace[j].handler = k

\* the messages cmd of channel ch sent for the handler of k, in order
SentFor(k, ch, cmd) ==
    SetToSortedSeq({j \in DOMAIN trace : /\ trace[j].ch = ch /\ trace[j].cmd = cmd
                                         /\ "handler" \in DOMAIN trace[j]
                                         /\ trace[j].handler = k})

\* the editor's answer to request i, 0 while there is none
EditorAnswer(i) ==
    LET answers == {j \in DOMAIN trace : trace[j].ch = "lspRe" /\ trace[j].seq = i}
    IN IF answers = {} THEN 0 ELSE CHOOSE j \in answers : TRUE

\* the follow-up commands sent for apply-code-action k are the first ones
\* of the code action, in order, each after the answer to the one before,
\* and all after the editor has answered the one applyEdit
CommandsInOrder(k) ==
    LET commands == trace[k].arguments[1].commands
        edits == SentFor(k, "lspOut", "applyWorkspaceEdit")
        requests == SentFor(k, "tsOut", "applyCodeActionCommand")
    IN /\ Len(edits) <= 1
       /\ Len(requests) <= Len(commands)
       /\ \A n \in DOMAIN requests :
             /\ trace[requests[n]].command = commands[n]
             /\ Len(edits) = 1
             /\ EditorAnswer(edits[1]) \in 1..(requests[n] - 1)
             /\ n > 1 => AnswerTo(requests[n - 1]) \in 1..(requests[n] - 1)

\* the follow-up commands are forwarded, in order and one at a time, when
\* the code action has file edits and the editor reports them applied, and
\* only then
C23_CommandsAfterAppliedEdit ==
    \A k \in DOMAIN trace :
        Executes(k, APPLY_CODE_ACTION) =>
            /\ CommandsInOrder(k)
            /\ Returned(k) =>
                  LET edits == SentFor(k, "lspOut", "applyWorkspaceEdit")
                      forwarded == Len(SentFor(k, "tsOut", "applyCodeActionCommand"))
                  IN IF /\ trace[k].arguments[1].changes # <<>>
                        /\ trace[EditorAnswer(edits[1])].applied
                     THEN forwarded = Len(trace[k].arguments[1].commands)
                     ELSE forwarded = 0

(* C23: executing apply-code-action sends the file edits of the code action *)
(* to the editor as one workspace edit and then forwards every follow-up    *)
(* command of the code action to the analyzer by applyCodeActionCommand:    *)
(* one request per command, in order, each issued after the one before was  *)
(* answered, and none before the editor has answered the applyEdit. (Read  *)
(* for the code action whose edits the editor applied, and for the one     *)
(* that has no file edits to send.)                                         *)
C23_CodeActionForwardsCommands ==
    \A k \in DOMAIN trace :
        Executes(k, APPLY_CODE_ACTION) =>
            LET changes == trace[k].arguments[1].changes
                edits == SentFor(k, "lspOut", "applyWorkspaceEdit")
            IN /\ CommandsInOrder(k)
               /\ Returned(k) =>
                     /\ Len(edits) = IF changes = <<>> THEN 0 ELSE 1
                     /\ (changes = <<>> \/ trace[EditorAnswer(edits[1])].applied) =>
                            Len(SentFor(k, "tsOut", "applyCodeActionCommand"))
                                = Len(trace[k].arguments[1].commands)

\* a code action with file edits and two follow-up commands was executed
\* to its end
C23_BothCommandsForwarded ==
    \E k \in DOMAIN trace :
        /\ Executes(k, APPLY_CODE_ACTION) /\ Returned(k)
        /\ Len(SentFor(k, "tsOut", "applyCodeActionCommand")) = 2

\* what the handler of apply-refactoring k has sent up to the editor's
\* answer to its applyEdit: getEditsForRefactor first; on an answer without
\* body or without edits it returns and the editor is sent nothing; else
\* ensureFile for each edit, in order, and then the one applyEdit
RefactoringUpToEdit(k) ==
    /\ IsTsOut(k + 1, "getEditsForRefactor") /\ trace[k + 1].file = trace[k].arguments[1].file
    /\ AnswerTo(k + 1) # 0 =>
          LET j == AnswerTo(k + 1)
              body == trace[j].body
          IN IF body = <<>> \/ body[1].edits = <<>>
             THEN /\ IsLspOut(j + 1, "executeCommand")
                  /\ SentFor(k, "lspOut", "applyWorkspaceEdit") = <<>>
                  /\ SentFor(k, "lspOut", "rename") = <<>>
             ELSE LET n == Len(body[1].edits)
                  IN /\ \A m \in 1..n :
                            trace[j + m] = [ch |-> "fs", cmd |-> "ensureFile",
                                            file |-> body[1].edits[m].fileName]
                     /\ SentFor(k, "lspOut", "applyWorkspaceEdit") = <<j + n + 1>>

\* the rename request that follows the editor's answer to applyEdit e of
\* apply-refactoring k, when wanted holds of the answer; else none
RenameFollows(k, e, wanted) ==
    LET a == EditorAnswer(e)
        location == BodyOf(k, "getEditsForRefactor")[1].renameLocation
    IN IF wanted
       THEN /\ SentFor(k, "lspOut", "rename") = <<a + 1>>
            /\ trace[a + 1].uri = PathToUri(trace[k].arguments[1].file)
            /\ trace[a + 1].position =
                   Position(location[1].line - 1, location[1].offset - 1)
       ELSE /\ SentFor(k, "lspOut", "rename") = <<>>
            /\ IsLspOut(a + 1, "executeCommand")

(* C24, as claimed: apply-refactoring issues getEditsForRefactor, then      *)
(* ensures that every target file exists, then sends one applyEdit, in that *)
(* order; whenever the result carries a renameLocation, exactly one rename  *)
(* request at that position is sent to the editor after the edit; with no   *)
(* body or no edits, nothing is sent to the editor.                         *)
C24_RenameWheneverLocated ==
    \A k \in DOMAIN trace :
        Executes(k, APPLY_REFACTORING) =>
            /\ RefactoringUpToEdit(k)
            /\ \A e \in Range(SentFor(k, "lspOut", "applyWorkspaceEdit")) :
                  EditorAnswer(e) # 0 =>
                      RenameFollows(k, e,
                          BodyOf(k, "getEditsForRefactor")[1].renameLocation # <<>>)

(* C24, amended: the same, with the rename request sent whenever the result *)
(* carries a renameLocation and the editor has answered that it applied the *)
(* edit; when the editor answers that it did not, no rename is sent.        *)
C24_RenameWhenApplied ==
    \A k \in DOMAIN trace :
        Executes(k, APPLY_REFACTORING) =>
            /\ RefactoringUpToEdit(k)
            /\ \A e \in Range(SentFor(k, "lspOut", "applyWorkspaceEdit")) :
                  EditorAnswer(e) # 0 =>
                      RenameFollows(k, e,
                          /\ BodyOf(k, "getEditsForRefactor")[1].renameLocation # <<>>
                          /\ trace[EditorAnswer(e)].applied)

\* a refactoring with edits in two files and a renameLocation was applied,
\* and the rename was requested
C24_Witness ==
    \E k \in DOMAIN trace :
        /\ Executes(k, APPLY_REFACTORING)
        /\ Len(SentFor(k, "lspOut", "rename")) = 1
        /\ Cardinality({j \in DOMAIN trace : trace[j].ch = "fs"}) = 2

\* the list of file edits that the handler of k gave to applyFileCodeEdits
GivenEdits(k) ==
    IF trace[k].command = APPLY_CODE_ACTION THEN trace[k].arguments[1].changes
    ELSE IF trace[k].command = APPLY_REFACTORING
    THEN BodyOf(k, "getEditsForRefactor")[1].edits
    ELSE BodyOf(k, "organizeImports")

\* the handler of k has called applyFileCodeEdits
CalledApply(k) ==
    \/ Executes(k, APPLY_CODE_ACTION)
    \/ /\ Executes(k, APPLY_REFACTORING) /\ AnswerTo(k + 1) # 0
       /\ trace[AnswerTo(k + 1)].body # <<>>
    \/ Executes(k, ORGANIZE_IMPORTS) /\ AnswerTo(k + 1) # 0

(* C25: the workspace edit that applyFileCodeEdits sends to the editor      *)
(* holds every text change of every entry of the list it was given, under   *)
(* the URI of the entry's file, also when two entries name the same file;   *)
(* for an empty list no applyEdit is sent and the caller goes on as for an  *)
(* edit that was not applied.                                               *)
C25_NoTextChangeDropped ==
    \A k \in DOMAIN trace :
        CalledApply(k) =>
            LET edits == GivenEdits(k)
                sent == SentFor(k, "lspOut", "applyWorkspaceEdit")
            IN IF edits = <<>>
               THEN sent = <<>> /\ Returned(k)
               ELSE /\ Len(sent) = 1
                    /\ \A n \in DOMAIN edits :
                          LET changes == trace[sent[1]].edit.changes
                              uri == PathToUri(edits[n].fileName)
                          IN /\ uri \in DOMAIN changes
                             /\ Range(edits[n].textChanges) \subseteq Range(changes[uri])

\* as C25 for the lists whose entries name different files
C25_DistinctFilesKept ==
    \A k \in DOMAIN trace :
        (/\ CalledApply(k)
         /\ \A n, m \in DOMAIN GivenEdits(k) :
               GivenEdits(k)[n].fileName = GivenEdits(k)[m].fileName => n = m)
        => LET edits == GivenEdits(k)
               sent == SentFor(k, "lspOut", "applyWorkspaceEdit")
           IN IF edits = <<>>
              THEN sent = <<>> /\ Returned(k)
              ELSE /\ Len(sent) = 1
                   /\ \A n \in DOMAIN edits :
                         trace[sent[1]].edit.changes[PathToUri(edits[n].fileName)]
                             = edits[n].textChanges

\* the spans of the span groups locs that are in the file of uri, in order
RECURSIVE SpansOf(_, _)
SpansOf(locs, uri) ==
    IF locs = <<>> THEN <<>>
    ELSE (IF PathToUri(Head(locs).file) = uri THEN Head(locs).locs ELSE <<>>)
         \o SpansOf(Tail(locs), uri)

(* C26: rename returns no edit when the analyzer's answer has no body, has  *)
(* canRename false or has no locations; otherwise it returns a workspace    *)
(* edit that holds, under the URI of each file named by a span group,       *)
(* exactly one text edit per location of the file in all span groups, also  *)
(* when several groups name the file, in the order of the answer, each with *)
(* the requested name as newText and the span as a 0-based range; and it    *)
(* holds nothing under any other URI.                                       *)
C26_RenameEditPerLocation ==
    \A j \in DOMAIN trace :
        (/\ trace[j].ch = "tsIn" /\ trace[j].cmd = "response"
         /\ trace[trace[j].seq].cmd = "rename" /\ "body" \in DOMAIN trace[j]) =>
            LET body == trace[j].body
                request == trace[trace[j].seq - 1]
            IN /\ IsLspOut(j + 1, "rename") /\ trace[j + 1].uri = request.uri
               /\ IF body = <<>> \/ ~body[1].info.canRename \/ body[1].locs = <<>>
                  THEN trace[j + 1].result = {}
                  ELSE \E edit \in trace[j + 1].result :
                          /\ trace[j + 1].result = {edit}
                          /\ DOMAIN edit.changes =
                                 {PathToUri(body[1].locs[n].file) : n \in DOMAIN body[1].locs}
                          /\ \A uri \in DOMAIN edit.changes :
                                LET spans == SpansOf(body[1].locs, uri)
                                IN /\ Len(edit.changes[uri]) = Len(spans)
                                   /\ \A n \in DOMAIN spans :
                                         /\ edit.changes[uri][n].newText = request.newName
                                         /\ edit.changes[uri][n].range.start =
                                                Position(spans[n].start.line - 1,
                                                         spans[n].start.offset - 1)
                                         /\ edit.changes[uri][n].range.end =
                                                Position(spans[n].end.line - 1,
                                                         spans[n].end.offset - 1)

\* a rename was answered with three span groups, two of them for the same
\* file, and returned its edit
C26_Witness ==
    \E j \in DOMAIN trace :
        /\ trace[j].ch = "tsIn" /\ "body" \in DOMAIN trace[j] /\ trace[j].body # <<>>
        /\ trace[j].body[1].info.canRename
        /\ Len(trace[j].body[1].locs) = 3
        /\ IsLspOut(j + 1, "rename") /\ trace[j + 1].result # {}

-----------------------------------------------------------------------------
(* Folding ranges.                                                         *)

\* foldingRanges on one document, which is opened first and then changed or
\* not, with the outlining spans the analyzer gives for the text it has: the
\* text of the open with the changes applied.
FoldTexts ==
    {<<"/", "/", "#", "e", "n", "d", "r", "e", "g", "i", "o", "n">>,
     <<"{", "\n", "/", "/", " ", "#", "E", "n", "d", "R", "e", "g", "i", "o", "n", "\r", "\n", "}">>,
     <<"/", "/", "\t", "#", "E", "N", "D", "R", "E", "G", "I", "O", "N", ".">>,
     <<"{", "\n", "}">>,
     <<"/", "/", "e", "n", "d", "r", "e", "g", "i", "o", "n", "\n", "}">>}

FoldChanges == {FullChange(<<"{", "\n", "}">>)}

OutliningSpan(kind, start, end) == [kind |-> kind, textSpan |-> TextSpan(start, end)]

\* a position of the editor as a location of the analyzer
ToLocation(position) == Location(position.line + 1, position.character + 1)

\* the text the analyzer has for uri
AnalyzerText(uri) == Reference(uri, Len(trace)).text

\* the spans of a text: each starts where a line starts and ends, at or
\* after its start, where a line starts, behind a closing brace or at the
\* end of the text
OutliningSpans(text) ==
    LET starts == {0} \cup Range(LineOffsets(text))
        ends == starts \cup {o \in 1..Len(text) : text[o] = "}"} \cup {Len(text)}
    IN {OutliningSpan(kind, ToLocation(PositionAt(text, e[1])),
                            ToLocation(PositionAt(text, e[2]))) :
           kind \in {"comment", "code"},
           e \in {p \in starts \X ends : p[1] <= p[2]}}

\* the answers of the analyzer: no body, no span, one span, or a comment
\* and a code span over the whole text
OutliningBodies(text) ==
    {<<>>, << <<>> >>}
    \cup {<< <<span>> >> : span \in OutliningSpans(text)}
    \cup {<< <<OutliningSpan("comment", Location(1, 1), ToLocation(PositionAt(text, Len(text)))),
               OutliningSpan("code", Location(1, 1), ToLocation(PositionAt(text, Len(text))))>> >>}

Folds == Cardinality({k \in DOMAIN trace : trace[k].ch = "lspIn" /\ trace[k].cmd = "foldingRanges"})

NextFold ==
    \/ /\ Ops = 0
       /\ \E text \in FoldTexts : DidOpenTextDocument("file:///a.ts", NextVersion, text)
    \/ /\ Ops > 0 /\ Ops < MaxFoldOps
       /\ \/ \E change \in FoldChanges :
               DidChangeTextDocument("file:///a.ts", NextVersion, <<change>>)
          \/ Folds < MaxFolds /\ FoldingRanges("file:///a.ts")
    \/ \E i \in pending, body \in OutliningBodies(AnalyzerText("file:///a.ts")) :
          FoldingRangesResponse(i, body)

SpecFold == Init /\ [][NextFold]_vars

\* message j is the analyzer's answer, with a body, to getOutliningSpans
IsOutlining(j) ==
    /\ trace[j].ch = "tsIn" /\ trace[j].cmd = "response"
    /\ trace[trace[j].seq].cmd = "getOutliningSpans"
    /\ "body" \in DOMAIN trace[j] /\ trace[j].body # <<>>

\* the folding ranges that were returned for the answer j
ReturnedFor(j) == CHOOSE ranges \in trace[j + 1].result : TRUE

\* the text of line of a text, with its line break
LineText(text, line) ==
    LET lineOffsets == LineOffsets(text)
    IN IF line + 1 > Len(lineOffsets) THEN <<>>
       ELSE SubSeq(text, lineOffsets[line + 1] + 1,
                   IF line + 2 <= Len(lineOffsets) THEN lineOffsets[line + 2] ELSE Len(text))

\* the span is a comment whose start line in text matches //\s*#endregion
IsEndregion(span, text) ==
    span.kind = "comment" /\ MatchesEndregion(LineText(text, span.textSpan.start.line - 1))

\* the folding ranges returned for the answer j are those of the spans
\* that are no endregion comments in the text of the Document, in order
OmitsEndregions(j) ==
    LET text == GetText(trace[trace[j].seq].document)
        kept == SelectSeq(trace[j].body[1], LAMBDA span : ~IsEndregion(span, text))
        ranges == ReturnedFor(j)
    IN /\ IsLspOut(j + 1, "foldingRanges") /\ trace[j + 1].result # {}
       /\ Len(ranges) = Len(kept)
       /\ \A n \in DOMAIN kept :
             /\ ranges[n].startLine = kept[n].textSpan.start.line - 1
             /\ ranges[n].kind = AsFoldingRangeKind(kept[n])

(* C27: foldingRanges omits every outlining span of kind comment whose      *)
(* start line's text in the document matches //\s*#endregion, in letters of *)
(* either case, wherever the line lies in the document, also when it is the *)
(* last line of a text that does not end with a line break; and it returns  *)
(* a folding range for every other span.                                    *)
C27_EndregionCommentsOmitted ==
    \A j \in DOMAIN trace : IsOutlining(j) => OmitsEndregions(j)

\* as C27 for the spans that start on a line with a line after it
C27_OmittedBeforeLastLine ==
    \A j \in DOMAIN trace :
        (/\ IsOutlining(j)
         /\ \A n \in DOMAIN trace[j].body[1] :
               trace[j].body[1][n].textSpan.start.line
                   < Len(LineOffsets(GetText(trace[trace[j].seq].document))))
        => OmitsEndregions(j)

\* the position is behind the code unit } of its line in text
PrecededByBrace(text, position) ==
    /\ position.character > 0
    /\ OffsetAt(text, position) > 0
    /\ text[OffsetAt(text, position)] = "}"

\* the folding ranges returned for the answer j end, in text, one line
\* before a span that ends behind a closing brace, though not before its
\* start, and on the end line of any other span
EndsBeforeBrace(j, text) ==
    LET document == trace[trace[j].seq].document
        kept == SelectSeq(trace[j].body[1],
                          LAMBDA span : AsFoldingRange(span, document) # <<>>)
        ranges == ReturnedFor(j)
    IN /\ Len(ranges) = Len(kept)
       /\ \A n \in DOMAIN kept :
             LET start == ToPosition(kept[n].textSpan.start)
                 end == ToPosition(kept[n].textSpan.end)
             IN /\ ranges[n].endLine =
                       IF PrecededByBrace(text, end)
                       THEN Max(end.line - 1, start.line) ELSE end.line
                /\ start.line <= end.line => ranges[n].startLine <= ranges[n].endLine

(* C28: for every outlining span whose end position is preceded by the code *)
(* unit } in the document's current text, the text after all the changes    *)
(* applied, the folding range's endLine is the span's end line minus one,   *)
(* but not below its startLine; for every other span endLine is the span's  *)
(* end line; so startLine <= endLine whenever the span's start line is not  *)
(* after its end line.                                                      *)
C28_EndLineBeforeClosingBrace ==
    \A j \in DOMAIN trace :
        IsOutlining(j) =>
            EndsBeforeBrace(j, Reference(PathToUri(trace[trace[j].seq].file), j).text)

\* as C28 with the text the Document holds, which is the text of the open
C28_EndLineByDocumentText ==
    \A j \in DOMAIN trace :
        IsOutlining(j) => EndsBeforeBrace(j, GetText(trace[trace[j].seq].document))

====
